---- MODULE Spec2Model ----
(***************************************************************************)
(* Jumpware / GoTo omnibox extension: the fuzzy word matcher, the weighted *)
(* multi-field scorer, the URL identity normalizer, the co-occurrence      *)
(* (affinity) graph and the omnibox ranking pipeline of the background     *)
(* service worker (src/unnamed/part_000).                                  *)
(*                                                                         *)
(* Strings are sequences of one-character strings.  JavaScript numbers are *)
(* modelled as exact rationals in fixed point: a field score of fuzzyScore *)
(* is an integer count of 1/1000, a weighted text score an integer count   *)
(* of 1/10000, a cluster boost a fraction bn/bd.  -Infinity is the record  *)
(* NegInf.                                                                 *)
(***************************************************************************)
EXTENDS Integers, Sequences, FiniteSets, TLC

VARIABLES
    fq,         \* fuzzyScore probe: the query argument q
    ft,         \* fuzzyScore probe: the target argument t
    fres,       \* fuzzyScore probe: <<>> before the call, then <<value returned>>
    nbase,      \* normalizer probe: the part the two URLs share
    nurl,       \* normalizer probe: a URL, nbase followed by a tail
    nurl2,      \* normalizer probe: a second URL, nbase followed by a tail
    nres,       \* normalizer probe: <<>>, then <<normalize(nurl), normalize(nurl2)>>
    nagain,     \* normalizer probe: <<>>, then <<normalize(nres[1])>>
    bco,        \* boost probe: the value of coOccurrenceData
    burl,       \* boost probe: the argument suggestionUrl
    bopen,      \* boost probe: the argument openUrls
    bres,       \* boost probe: <<>> before the call, then <<value returned>>
    startup,            \* the startup loads not yet completed: "index", "graph"
    indexCache,         \* the in-memory index, or null
    indexCacheFresh,    \* Date.now() - indexCacheTimestamp < INDEX_CACHE_TTL
    coOccurrenceData,   \* the co-occurrence graph, or null
    snapshotTimeout,    \* TRUE while the timer that saves the graph is pending
    urlCoOccurrence,    \* chrome.storage.local: <<>> or <<the graph saved>>
    tabs,               \* the URLs of the open tabs, as chrome.tabs.query({}) lists them
    screenSnapshot,     \* the cached on-screen links and OTP Gmail URL
    suggested,          \* <<>>, or <<text, list>>: onInputChanged has just handed list to suggest
    opened,             \* <<>>, or <<text, target>>: onInputEntered has just opened target
    now,                \* Date.now(), in steps of the clock
    indexCacheTimestamp,    \* the time the in-memory index carries
    storedIndex,        \* chrome.storage.local: <<>> or <<the index saved>>
    index_timestamp,    \* chrome.storage.local: <<>> or <<the timestamp saved>>
    cacheBuiltAt,       \* when buildIndex read the history the in-memory index holds
    storedBuiltAt,      \* when buildIndex read the history the stored index holds
    inflight,           \* the onInputChanged call that is waiting, if any
    clock,              \* the time since the tracker's clock started, in steps
    lastSnapshotTime,   \* Date.now() of the last snapshot that completed, 0 before
    periodicTimers,     \* the times at which the pending timers of line 864 fire
    snapshotCalls,      \* the calls of snapshotOpenTabs that wait for chrome.tabs.query
    snapshotStarts,     \* when the last two of these calls were made
    activeTabId,        \* the id of the active tab of the current window
    tabPages,           \* for each tab, the number of the page it shows
    screenRequests,     \* the calls of requestScreenSnapshot that wait for a content script
    screenTimestamp     \* screenSnapshot.timestamp, in steps of the clock

matchVars == <<fq, ft, fres>>
urlVars == <<nbase, nurl, nurl2, nres, nagain>>
graphVars == <<coOccurrenceData, snapshotTimeout, urlCoOccurrence>>
queryVars == <<suggested, opened>>
indexVars == <<indexCache, indexCacheFresh>>
\* the index in time and in storage; the specification of the ranking leaves
\* these alone and keeps indexCacheFresh in their place
storeVars == <<now, indexCacheTimestamp, storedIndex, index_timestamp, cacheBuiltAt,
               storedBuiltAt, inflight>>
\* the periodic scheduler of the co-occurrence tracker in time; the
\* specification of the graph leaves these alone and takes a snapshot at
\* any moment
timerVars == <<clock, lastSnapshotTime, periodicTimers, snapshotCalls, snapshotStarts>>
\* the active tab and the requests for its snapshot in time; the other
\* specifications leave these alone and take a snapshot in one step
screenVars == <<activeTabId, tabPages, screenRequests, screenTimestamp>>
sysVars == <<startup, indexVars, graphVars, tabs, screenSnapshot, queryVars, storeVars,
             timerVars, screenVars>>
boostVars == <<bco, burl, bopen, bres>>
probeVars == <<matchVars, urlVars, boostVars>>
vars == <<probeVars, sysVars>>

(***************************************************************************)
(* Bounds of the model                                                     *)
(***************************************************************************)
MaxQueryLen == 4
MaxTargetLen == 11
\* the service worker: open tabs and the greatest edge count before which a
\* snapshot is still taken
MaxTabs == 2
MaxCount == 1
\* the co-occurrence tracker on its own
GraphMaxTabs == 3
GraphMaxCount == 2
MaxTime == 3
\* the screen snapshot in time: tabs, pages a tab goes through, requests
\* under way, steps of the clock
MaxScreenTabs == 2
MaxPage == 1
MaxScreenRequests == 1
MaxScreenTime == 2
ScreenTabs == 1..MaxScreenTabs

(***************************************************************************)
(* Strings                                                                 *)
(***************************************************************************)
RECURSIVE SeqsUpTo(_, _)
SeqsUpTo(S, n) ==
    IF n = 0 THEN {<<>>}
    ELSE LET shorter == SeqsUpTo(S, n - 1)
         IN  shorter \cup {Append(s, c) : s \in {x \in shorter : Len(x) = n - 1}, c \in S}

\* String.prototype.toLowerCase on the characters of the model's alphabets
UpperSeq == <<"A", "B", "C", "D", "E", "F", "G", "H", "I", "J", "K", "L", "M",
              "N", "O", "P", "Q", "R", "S", "T", "U", "V", "W", "X", "Y", "Z">>
LowerSeq == <<"a", "b", "c", "d", "e", "f", "g", "h", "i", "j", "k", "l", "m",
              "n", "o", "p", "q", "r", "s", "t", "u", "v", "w", "x", "y", "z">>
LowerOf == [c \in {UpperSeq[i] : i \in 1..26} |->
               LowerSeq[CHOOSE i \in 1..26 : UpperSeq[i] = c]]
toLowerCase(s) == [i \in 1..Len(s) |-> IF s[i] \in DOMAIN LowerOf THEN LowerOf[s[i]] ELSE s[i]]

IsSpace(c) == c = " "

\* String.prototype.trim
RECURSIVE trimStart(_)
trimStart(s) == IF s # <<>> /\ IsSpace(Head(s)) THEN trimStart(Tail(s)) ELSE s
RECURSIVE trimEnd(_)
trimEnd(s) ==
    IF s # <<>> /\ IsSpace(s[Len(s)]) THEN trimEnd(SubSeq(s, 1, Len(s) - 1)) ELSE s
trim(s) == trimEnd(trimStart(s))

\* q.split(/\s+/).filter(w => w.length > 0)
RECURSIVE SplitWordsFrom(_, _, _)
SplitWordsFrom(s, cur, acc) ==
    IF s = <<>> THEN (IF cur = <<>> THEN acc ELSE Append(acc, cur))
    ELSE IF IsSpace(Head(s))
         THEN SplitWordsFrom(Tail(s), <<>>, IF cur = <<>> THEN acc ELSE Append(acc, cur))
         ELSE SplitWordsFrom(Tail(s), Append(cur, Head(s)), acc)
SplitWords(s) == SplitWordsFrom(s, <<>>, <<>>)

RECURSIVE SumLen(_)
SumLen(ws) == IF ws = <<>> THEN 0 ELSE Len(Head(ws)) + SumLen(Tail(ws))

(***************************************************************************)
(* Numbers                                                                 *)
(***************************************************************************)
NegInf == [inf |-> TRUE, v |-> 0]
Fin(n) == [inf |-> FALSE, v |-> n]
\* the sentinel -9999 of fuzzyScore, in units of 1/1000
NoQueryField == Fin(-9999000)

(***************************************************************************)
(* fuzzyScore: the word-based subsequence matcher                          *)
(***************************************************************************)
NoScan == -1

\* the inner for loop of one start position: the jumps counted when the word
\* is fully consumed, NoScan when the target ends first
\* a scan that gives up at the first mismatch after its first matched letter
RECURSIVE ScanFrom_Contiguous(_, _, _, _, _)
ScanFrom_Contiguous(word, t, i, wi, wordJumps) ==
    IF i > Len(t) THEN NoScan
    ELSE IF t[i] = word[wi]
         THEN IF wi = Len(word) THEN wordJumps
              ELSE ScanFrom_Contiguous(word, t, i + 1, wi + 1, wordJumps)
         ELSE IF wi > 1 THEN NoScan
              ELSE ScanFrom_Contiguous(word, t, i + 1, wi, wordJumps + 1)

RECURSIVE ScanFrom(_, _, _, _, _)
ScanFrom(word, t, i, wi, wordJumps) ==
    IF i > Len(t) THEN NoScan
    ELSE IF t[i] = word[wi]
         THEN IF wi = Len(word) THEN wordJumps
              ELSE ScanFrom(word, t, i + 1, wi + 1, wordJumps)
         ELSE ScanFrom(word, t, i + 1, wi, wordJumps + 1)

\* a matcher that keeps the greatest count of jumps instead of the least
MatchWord_WorstJumps(word, t) ==
    LET found == {ScanFrom(word, t, startPos, 1, 0) : startPos \in 1..Len(t)} \ {NoScan}
    IN  [wordMatched   |-> found # {},
         bestWordJumps |-> IF found = {} THEN 0
                           ELSE CHOOSE j \in found : \A k \in found : j >= k]

\* a matcher that scans from the first start position only
MatchWord_FirstStart(word, t) ==
    LET found == {ScanFrom(word, t, startPos, 1, 0) : startPos \in {p \in 1..Len(t) : p = 1}} \ {NoScan}
    IN  [wordMatched   |-> found # {},
         bestWordJumps |-> IF found = {} THEN 0
                           ELSE CHOOSE j \in found : \A k \in found : j <= k]

\* the loop over startPos: wordMatched, and bestWordJumps, the least count of
\* jumps of the start positions from which the word is found
MatchWord(word, t) ==
    LET found == {ScanFrom(word, t, startPos, 1, 0) : startPos \in 1..Len(t)} \ {NoScan}
    IN  [wordMatched   |-> found # {},
         bestWordJumps |-> IF found = {} THEN 0
                           ELSE CHOOSE j \in found : \A k \in found : j <= k]

\* the 1.5x budget applied to every word, short ones included
JumpThreshold2_NoShortRule(word) == 3 * Len(word)

\* jumpThreshold, doubled: word.length * 1.0 up to three letters, else * 1.5
JumpThreshold2(word) == IF Len(word) <= 3 THEN 2 * Len(word) ELSE 3 * Len(word)
OverBudget(word, bestWordJumps) == 2 * bestWordJumps > JumpThreshold2(word)

\* the for loop over the words: -1 when a word is rejected, else totalJumps
RECURSIVE WordsJumps(_, _, _)
WordsJumps(words, t, totalJumps) ==
    IF words = <<>> THEN totalJumps
    ELSE LET m == MatchWord(Head(words), t)
         IN  IF ~m.wordMatched THEN NoScan
             ELSE IF OverBudget(Head(words), m.bestWordJumps) THEN NoScan
             ELSE WordsJumps(Tail(words), t, totalJumps + m.bestWordJumps)

fuzzyScore(qIn, tIn) ==
    LET q == trim(toLowerCase(qIn))
        t == toLowerCase(tIn)
        words == SplitWords(q)
    IN  IF q = <<>> THEN NoQueryField
        ELSE IF words = <<>> THEN NoQueryField
        ELSE LET totalJumps == WordsJumps(words, t, 0)
                 extraCharPenalty == Len(q) - SumLen(words)
             IN  IF totalJumps = NoScan THEN NegInf
                 ELSE Fin(-(totalJumps * 1000) - Len(t) - extraCharPenalty * 100)

(***************************************************************************)
(* new URL(url): the WHATWG URL parser on the characters of the model      *)
(*   letters, digits, "." "-" "=" and the delimiters ":" "/" "?" "#" "@".  *)
(* No character of this alphabet is percent-encoded, stripped or           *)
(* case-folded by the parser; the model has no "." or ".." path segment,   *)
(* no file: URL, no numeric host under a special scheme and no port above  *)
(* 65535.                                                                  *)
(***************************************************************************)
Str_https == <<"h", "t", "t", "p", "s">>
Str_http == <<"h", "t", "t", "p">>
Str_ftp == <<"f", "t", "p">>
Str_ws == <<"w", "s">>
Str_wss == <<"w", "s", "s">>
SpecialSchemes == {Str_https, Str_http, Str_ftp, Str_ws, Str_wss}

LowerLetters == {"a", "b", "c", "d", "e", "f", "g", "h", "i", "j", "k", "l", "m",
                 "n", "o", "p", "q", "r", "s", "t", "u", "v", "w", "x", "y", "z"}
DigitChars == {"0", "1", "2", "3", "4", "5", "6", "7", "8", "9"}
IsAlpha(c) == c \in LowerLetters
IsDigit(c) == c \in DigitChars
IsSchemeChar(c) == IsAlpha(c) \/ IsDigit(c) \/ c \in {"+", "-", "."}

\* the least index >= from of a character of s in the set S, Len(s) + 1 if none
RECURSIVE FirstIn(_, _, _)
FirstIn(s, S, from) ==
    IF from > Len(s) THEN Len(s) + 1
    ELSE IF s[from] \in S THEN from
    ELSE FirstIn(s, S, from + 1)

\* the greatest index of the character c in s, 0 if none
RECURSIVE LastIndexOf(_, _, _)
LastIndexOf(s, c, from) ==
    IF from = 0 THEN 0
    ELSE IF s[from] = c THEN from
    ELSE LastIndexOf(s, c, from - 1)

From(s, i) == SubSeq(s, i, Len(s))
UpTo(s, i) == SubSeq(s, 1, i)
StartsWith(s, pre) == Len(s) >= Len(pre) /\ SubSeq(s, 1, Len(pre)) = pre

RECURSIVE StripSlashes(_)
StripSlashes(s) == IF s # <<>> /\ Head(s) = "/" THEN StripSlashes(Tail(s)) ELSE s

ParseFailure == [ok |-> FALSE, protocol |-> <<>>, hostname |-> <<>>, pathname |-> <<>>]
Parsed(scheme, host, path) ==
    [ok |-> TRUE, protocol |-> Append(scheme, ":"), hostname |-> host, pathname |-> path]

\* authority state, host state, port state and path start state: r is the
\* input after the slashes that open the authority
ParseAuthority(scheme, r, special) ==
    LET e        == FirstIn(r, {"/", "?", "#"}, 1)
        auth     == UpTo(r, e - 1)
        after    == From(r, e)
        at       == LastIndexOf(auth, "@", Len(auth))
        hostport == From(auth, at + 1)
        colon    == FirstIn(hostport, {":"}, 1)
        host     == UpTo(hostport, colon - 1)
        port     == From(hostport, colon + 1)
        pathPart == UpTo(after, FirstIn(after, {"?", "#"}, 1) - 1)
    IN  IF at > 0 /\ hostport = <<>> THEN ParseFailure
        ELSE IF colon <= Len(hostport) /\ host = <<>> THEN ParseFailure
        ELSE IF special /\ host = <<>> THEN ParseFailure
        ELSE IF \E i \in 1..Len(port) : ~IsDigit(port[i]) THEN ParseFailure
        ELSE Parsed(scheme, host,
                    IF special /\ pathPart = <<>> THEN <<"/">> ELSE pathPart)

URLParse(s) ==
    IF s = <<>> \/ ~IsAlpha(s[1]) THEN ParseFailure
    ELSE LET k == FirstIn(s, {c \in {s[i] : i \in 1..Len(s)} : ~IsSchemeChar(c)}, 1)
         IN  IF k > Len(s) \/ s[k] # ":" THEN ParseFailure
             ELSE LET scheme == UpTo(s, k - 1)
                      rest   == From(s, k + 1)
                  IN  IF scheme \in SpecialSchemes
                      THEN ParseAuthority(scheme, StripSlashes(rest), TRUE)
                      ELSE IF StartsWith(rest, <<"/", "/">>)
                      THEN ParseAuthority(scheme, From(rest, 3), FALSE)
                      ELSE \* a path without authority, or an opaque path
                           Parsed(scheme, <<>>,
                                  UpTo(rest, FirstIn(rest, {"?", "#"}, 1) - 1))

(***************************************************************************)
(* normalizeUrlForDedup                                                    *)
(***************************************************************************)
Str_docsHost == <<"d", "o", "c", "s", ".", "g", "o", "o", "g", "l", "e", ".", "c", "o", "m">>
Str_githubHost == <<"g", "i", "t", "h", "u", "b", ".", "c", "o", "m">>
Str_documentD == <<"/", "d", "o", "c", "u", "m", "e", "n", "t", "/", "d", "/">>
Str_spreadsheetsD == <<"/", "s", "p", "r", "e", "a", "d", "s", "h", "e", "e", "t", "s", "/", "d", "/">>
Str_presentationD == <<"/", "p", "r", "e", "s", "e", "n", "t", "a", "t", "i", "o", "n", "/", "d", "/">>
Str_httpsDocs == <<"h", "t", "t", "p", "s", ":", "/", "/", "d", "o", "c", "s", ".", "g", "o", "o", "g", "l", "e", ".", "c", "o", "m">>
Str_httpsGithub == <<"h", "t", "t", "p", "s", ":", "/", "/", "g", "i", "t", "h", "u", "b", ".", "c", "o", "m", "/">>

\* RegExp.prototype.test of a literal pattern: pat occurs in s
Contains(s, pat) ==
    \E i \in 1..(Len(s) - Len(pat) + 1) : SubSeq(s, i, i + Len(pat) - 1) = pat

\* pathname.match(/<lit>([^\/]+)/): the leftmost place where lit is followed
\* by a character other than "/"; the capture runs to the next "/".
RegexMatches(path, litPat) ==
    {i \in 1..(Len(path) - Len(litPat)) :
        /\ SubSeq(path, i, i + Len(litPat) - 1) = litPat
        /\ path[i + Len(litPat)] # "/"}
HasMatch(path, litPat) == RegexMatches(path, litPat) # {}
Capture(path, litPat) ==
    LET i  == CHOOSE m \in RegexMatches(path, litPat) :
                  \A n \in RegexMatches(path, litPat) : m <= n
        b  == i + Len(litPat)
    IN  SubSeq(path, b, FirstIn(path, {"/"}, b) - 1)

\* pathname.split('/').filter(p => p)
RECURSIVE SplitPath(_, _, _)
SplitPath(s, cur, acc) ==
    IF s = <<>> THEN (IF cur = <<>> THEN acc ELSE Append(acc, cur))
    ELSE IF Head(s) = "/"
         THEN SplitPath(Tail(s), <<>>, IF cur = <<>> THEN acc ELSE Append(acc, cur))
         ELSE SplitPath(Tail(s), Append(cur, Head(s)), acc)

\* the body of the try block, u the parsed URL
NormalizeParsed(u) ==
    LET generic == u.protocol \o <<"/", "/">> \o u.hostname \o u.pathname
        parts   == SplitPath(u.pathname, <<>>, <<>>)
    IN  IF Contains(u.hostname, Str_docsHost)
        THEN IF HasMatch(u.pathname, Str_documentD)
                 THEN Str_httpsDocs \o Str_documentD \o Capture(u.pathname, Str_documentD)
             ELSE IF HasMatch(u.pathname, Str_spreadsheetsD)
                 THEN Str_httpsDocs \o Str_spreadsheetsD
                          \o Capture(u.pathname, Str_spreadsheetsD)
             ELSE IF HasMatch(u.pathname, Str_presentationD)
                 THEN Str_httpsDocs \o Str_presentationD
                          \o Capture(u.pathname, Str_presentationD)
             ELSE generic
        ELSE IF Contains(u.hostname, Str_githubHost) /\ Len(parts) >= 2
             THEN Str_httpsGithub \o parts[1] \o <<"/">> \o parts[2]
        ELSE generic

\* what escapes the function when nothing catches the TypeError of new URL
TypeErrorThrown == <<"TypeError">>

\* the function without its try/catch
normalizeUrlForDedup_NoCatch(url) ==
    IF URLParse(url).ok THEN NormalizeParsed(URLParse(url)) ELSE TypeErrorThrown

normalizeUrlForDedup(url) ==
    IF URLParse(url).ok THEN NormalizeParsed(URLParse(url)) ELSE url

(***************************************************************************)
(* calculateWeightedTextScore.  An item is a record url, title, kind,      *)
(* content, headings.  The result counts 1/10000: the weights are 15, 10,  *)
(* 8, 5 and 3 tenths of field scores that count 1/1000.                    *)
(***************************************************************************)
\* a scorer that gives the empty query the best score there is
NoQueryText_Zero == Fin(0)

\* the sentinel -9999 of calculateWeightedTextScore, in units of 1/10000
NoQueryText == Fin(-99990000)

\* a sum in which a field that was not evaluated counts with its sentinel
Safe_KeepSentinel(score) == IF score = NegInf THEN 0 ELSE score.v

\* (score === -Infinity || score === -9999) ? 0 : score
Safe(score) == IF score = NegInf \/ score = NoQueryField THEN 0 ELSE score.v

\* a scorer that wants every evaluated field to match
HasValidMatch_EveryField(allScores) ==
    \A i \in 1..Len(allScores) : allScores[i] # NegInf /\ allScores[i] # NoQueryField

\* allScores.some(score => score !== -Infinity && score !== -9999)
HasValidMatch(allScores) ==
    \E i \in 1..Len(allScores) : allScores[i] # NegInf /\ allScores[i] # NoQueryField

\* a scorer that evaluates body text and headings for short queries too
calculateWeightedTextScore_NoShortRule(query, item) ==
    LET q             == trim(toLowerCase(query))
        titleScore    == fuzzyScore(q, toLowerCase(item.title))
        urlScore      == fuzzyScore(q, toLowerCase(item.url))
        kindScore     == fuzzyScore(q, toLowerCase(item.kind))
        contentScore  == fuzzyScore(q, toLowerCase(item.content))
        headingsScore == fuzzyScore(q, toLowerCase(item.headings))
        allScores     == <<titleScore, urlScore, kindScore, contentScore, headingsScore>>
    IN  IF q = <<>> THEN NoQueryText
        ELSE IF ~HasValidMatch(allScores) THEN NegInf
        ELSE Fin(Safe(titleScore) * 15 + Safe(contentScore) * 10
                 + Safe(headingsScore) * 8 + Safe(urlScore) * 5 + Safe(kindScore) * 3)

calculateWeightedTextScore(query, item) ==
    LET q             == trim(toLowerCase(query))
        long          == Len(q) >= 3
        titleScore    == fuzzyScore(q, toLowerCase(item.title))
        urlScore      == fuzzyScore(q, toLowerCase(item.url))
        kindScore     == fuzzyScore(q, toLowerCase(item.kind))
        contentScore  == IF long THEN fuzzyScore(q, toLowerCase(item.content))
                         ELSE NoQueryField
        headingsScore == IF long THEN fuzzyScore(q, toLowerCase(item.headings))
                         ELSE NoQueryField
        allScores     == IF long
                         THEN <<titleScore, urlScore, kindScore, contentScore, headingsScore>>
                         ELSE <<titleScore, urlScore, kindScore>>
    IN  IF q = <<>> THEN NoQueryText
        ELSE IF ~HasValidMatch(allScores) THEN NegInf
        ELSE Fin(Safe(titleScore) * 15 + Safe(contentScore) * 10
                 + Safe(headingsScore) * 8 + Safe(urlScore) * 5 + Safe(kindScore) * 3)

(***************************************************************************)
(* The co-occurrence graph.  coOccurrenceData is null (loaded = FALSE) or  *)
(* an object whose keys are identities; each value is an object from       *)
(* identities to counts.                                                   *)
(***************************************************************************)
EmptyObject == [k \in {} |-> 0]
NullData == [loaded |-> FALSE, data |-> EmptyObject]
Loaded(data) == [loaded |-> TRUE, data |-> data]

\* if (!coOccurrenceData[k]) coOccurrenceData[k] = {}
EnsureKey(data, k) == IF k \in DOMAIN data THEN data ELSE data @@ (k :> EmptyObject)

\* an increment that counts every observation twice
Increment_Twice(data, a, b) ==
    [data EXCEPT ![a] = IF b \in DOMAIN @ THEN [@ EXCEPT ![b] = @ + 2]
                        ELSE @ @@ (b :> 2)]

\* coOccurrenceData[a][b] = (coOccurrenceData[a][b] || 0) + 1
Increment(data, a, b) ==
    [data EXCEPT ![a] = IF b \in DOMAIN @ THEN [@ EXCEPT ![b] = @ + 1]
                        ELSE @ @@ (b :> 1)]

\* an inner loop that counts only the direction from url1 to url2
RECURSIVE RecordInner_OneDirection(_, _, _, _)
RecordInner_OneDirection(data, urls, i, j) ==
    IF j > Len(urls) THEN data
    ELSE RecordInner_OneDirection(Increment(EnsureKey(data, urls[j]), urls[i], urls[j]),
                                  urls, i, j + 1)

\* the inner loop over j of recordCoOccurrence
RECURSIVE RecordInner(_, _, _, _)
RecordInner(data, urls, i, j) ==
    IF j > Len(urls) THEN data
    ELSE LET d1 == EnsureKey(data, urls[j])
             d2 == Increment(d1, urls[i], urls[j])
             d3 == Increment(d2, urls[j], urls[i])
         IN  RecordInner(d3, urls, i, j + 1)

\* the outer loop over i of recordCoOccurrence
RECURSIVE RecordOuter(_, _, _)
RecordOuter(data, urls, i) ==
    IF i > Len(urls) THEN data
    ELSE RecordOuter(RecordInner(EnsureKey(data, urls[i]), urls, i, i + 1), urls, i + 1)

\* urls.map(url => normalizeUrlForDedup(url)).filter(url => url && url.length > 0)
RECURSIVE NormalizeAll(_)
NormalizeAll(urls) ==
    IF urls = <<>> THEN <<>>
    ELSE LET n == normalizeUrlForDedup(Head(urls))
         IN  (IF n = <<>> THEN <<>> ELSE <<n>>) \o NormalizeAll(Tail(urls))

\* recordCoOccurrence up to its timer: the new value of coOccurrenceData
RecordedData(co, urls) ==
    IF ~co.loaded THEN co ELSE Loaded(RecordOuter(co.data, NormalizeAll(urls), 1))

\* a sum that counts the entries instead of adding their counts
SumCounts_CountKeys(f, S) == Cardinality(S)

RECURSIVE SumCounts(_, _)
SumCounts(f, S) ==
    IF S = {} THEN 0
    ELSE LET k == CHOOSE x \in S : TRUE IN f[k] + SumCounts(f, S \ {k})

ElementsOf(seq) == {seq[i] : i \in 1..Len(seq)}

\* a boost is the fraction bn / bd
ZeroBoost == [bn |-> 0, bd |-> 1]
CLUSTER_BOOST_BASE == 50

\* a boost that takes every co-occurring URL as open
calculateClusterBoost_AllOpen(co, suggestionUrl, openUrls) ==
    IF ~co.loaded \/ openUrls = <<>> THEN ZeroBoost
    ELSE LET normalizedSuggestion == normalizeUrlForDedup(suggestionUrl)
         IN  IF normalizedSuggestion \notin DOMAIN co.data THEN ZeroBoost
             ELSE LET coOccurringUrls == co.data[normalizedSuggestion]
                      keys            == DOMAIN coOccurringUrls
                      totalFrequency  == SumCounts(coOccurringUrls, keys)
                  IN  IF keys = {} THEN ZeroBoost
                      ELSE [bn |-> Cardinality(keys) * totalFrequency * CLUSTER_BOOST_BASE,
                            bd |-> Cardinality(keys) * totalFrequency]

\* a boost that leaves the co-occurring URLs that are not open out of both
\* ratios
calculateClusterBoost_OpenOnly(co, suggestionUrl, openUrls) ==
    IF ~co.loaded \/ openUrls = <<>> THEN ZeroBoost
    ELSE LET normalizedSuggestion == normalizeUrlForDedup(suggestionUrl)
         IN  IF normalizedSuggestion \notin DOMAIN co.data THEN ZeroBoost
             ELSE LET coOccurringUrls == co.data[normalizedSuggestion]
                      openKeys        == DOMAIN coOccurringUrls \cap ElementsOf(openUrls)
                      openFrequency   == SumCounts(coOccurringUrls, openKeys)
                  IN  IF openKeys = {} \/ openFrequency = 0 THEN ZeroBoost
                      ELSE [bn |-> Cardinality(openKeys) * openFrequency * CLUSTER_BOOST_BASE,
                            bd |-> Cardinality(openKeys) * openFrequency]

calculateClusterBoost(co, suggestionUrl, openUrls) ==
    IF ~co.loaded \/ openUrls = <<>> THEN ZeroBoost
    ELSE LET normalizedSuggestion == normalizeUrlForDedup(suggestionUrl)
         IN  IF normalizedSuggestion \notin DOMAIN co.data THEN ZeroBoost
             ELSE LET coOccurringUrls == co.data[normalizedSuggestion]
                      keys            == DOMAIN coOccurringUrls
                      openKeys        == keys \cap ElementsOf(openUrls)
                      totalFrequency  == SumCounts(coOccurringUrls, keys)
                      openFrequency   == SumCounts(coOccurringUrls, openKeys)
                      clusterSize     == Cardinality(keys)
                  IN  IF keys = {} THEN ZeroBoost
                      ELSE IF openKeys = {} THEN ZeroBoost
                      ELSE IF totalFrequency > 0
                           THEN [bn |-> Cardinality(openKeys) * openFrequency
                                            * CLUSTER_BOOST_BASE,
                                 bd |-> clusterSize * totalFrequency]
                           ELSE ZeroBoost

(***************************************************************************)
(* Combined scores: textScore + clusterBoost is the record inf, text       *)
(* (1/10000), bn, bd; its value is text / 10000 + bn / bd.                 *)
(***************************************************************************)
\* a sum in which a positive boost makes a match of a no-match
Plus_BoostRescues(textScore, boost) ==
    [inf |-> textScore.inf /\ boost.bn = 0, text |-> textScore.v,
     bn |-> boost.bn, bd |-> boost.bd]

Plus(textScore, boost) ==
    [inf |-> textScore.inf, text |-> textScore.v, bn |-> boost.bn, bd |-> boost.bd]

\* a.score >= b.score for finite scores: with d = a.text - b.text,
\* d * (a.bd * b.bd) >= 10000 * (b.bn * a.bd - a.bn * b.bd)
ScoreGE(a, b) ==
    LET den == a.bd * b.bd
        num == 10000 * (b.bn * a.bd - a.bn * b.bd)
    IN  a.text - b.text >= -((-num) \div den)

MATCH_QUALITY_THRESHOLD == -15

\* no quality gate at all
MeetsThreshold_Always(score) == TRUE

\* bestMatch.score >= MATCH_QUALITY_THRESHOLD:
\* (threshold * 10000 - text) * bd <= 10000 * bn
MeetsThreshold(score) ==
    MATCH_QUALITY_THRESHOLD * 10000 - score.text <= (10000 * score.bn) \div score.bd

(***************************************************************************)
(* The screen snapshot, HOST_ALLOW and isChromeUrl                         *)
(***************************************************************************)
\* { links: [], otpGmailUrl: null, tabId: null, timestamp: 0 }
NoSnapshot == [tabId |-> 0, links |-> <<>>, otpGmailUrl |-> <<>>]

Str_chrome == <<"c", "h", "r", "o", "m", "e", ":", "/", "/">>
Str_chromeExtension == <<"c", "h", "r", "o", "m", "e", "-", "e", "x", "t", "e", "n", "s", "i", "o", "n", ":", "/", "/">>
isChromeUrl(url) == StartsWith(url, Str_chrome) \/ StartsWith(url, Str_chromeExtension)

EndsWith(s, suf) == Len(s) >= Len(suf) /\ SubSeq(s, Len(s) - Len(suf) + 1, Len(s)) = suf
\* /(^|\.)docs\.google\.com$|(^|\.)github\.com$/i
HOST_ALLOW(hostname) ==
    \E h \in {Str_docsHost, Str_githubHost} :
        hostname = h \/ EndsWith(hostname, <<".">> \o h)

\* the filter of snapshotOpenTabs
InScope(url) ==
    url # <<>> /\ (isChromeUrl(url) \/ (URLParse(url).ok /\ HOST_ALLOW(URLParse(url).hostname)))

(***************************************************************************)
(* The index: normalizeItem, dedupeByUrl, buildIndex, getIndexFast.        *)
(* indexCache is null (loaded = FALSE) or an array of items.               *)
(***************************************************************************)
NullIndex == [loaded |-> FALSE, items |-> <<>>]
LoadedIndex(items) == [loaded |-> TRUE, items |-> items]
Item(url, title, kind, content, headings) ==
    [url |-> url, title |-> title, kind |-> kind, content |-> content,
     headings |-> headings]

Str_kindChrome == <<"C", "h", "r", "o", "m", "e">>
Str_kindDoc == <<"G", "o", "o", "g", "l", "e", " ", "D", "o", "c">>
Str_kindSheet == <<"G", "o", "o", "g", "l", "e", " ", "S", "h", "e", "e", "t">>
Str_kindSlides == <<"G", "o", "o", "g", "l", "e", " ", "S", "l", "i", "d", "e", "s">>
Str_kindDocs == <<"G", "o", "o", "g", "l", "e", " ", "D", "o", "c", "s">>
Str_kindGitHub == <<"G", "i", "t", "H", "u", "b">>
Str_kindOther == <<"O", "t", "h", "e", "r">>
Str_document == <<"/", "d", "o", "c", "u", "m", "e", "n", "t", "/">>
Str_spreadsheets == <<"/", "s", "p", "r", "e", "a", "d", "s", "h", "e", "e", "t", "s", "/">>
Str_presentation == <<"/", "p", "r", "e", "s", "e", "n", "t", "a", "t", "i", "o", "n", "/">>

\* pathname.split("/")
RECURSIVE SplitAll(_, _, _)
SplitAll(s, cur, acc) ==
    IF s = <<>> THEN Append(acc, cur)
    ELSE IF Head(s) = "/" THEN SplitAll(Tail(s), <<>>, Append(acc, cur))
    ELSE SplitAll(Tail(s), Append(cur, Head(s)), acc)
\* an element of the split, "" where the array has none
Segment(segs, i) == IF i <= Len(segs) THEN segs[i] ELSE <<>>

\* u.toString() of a URL that has a host and neither credentials nor port:
\* the parts the parser found, then the query and fragment as written
Href(url) ==
    LET u == URLParse(url)
    IN  u.protocol \o <<"/", "/">> \o u.hostname \o u.pathname
            \o From(url, FirstIn(url, {"?", "#"}, 1))

\* normalizeItem(url, title) without extracted content: <<>> for null
normalizeItem(url, title) ==
    LET finalTitle == IF title # <<>> THEN title ELSE url
        blank      == trim(finalTitle) = <<>>
        u          == URLParse(url)
        segs       == SplitAll(u.pathname, <<>>, <<>>)
        owner      == Segment(segs, 2)
        repo       == Segment(segs, 3)
        docKind    == IF StartsWith(u.pathname, Str_document) THEN Str_kindDoc
                      ELSE IF StartsWith(u.pathname, Str_spreadsheets) THEN Str_kindSheet
                      ELSE IF StartsWith(u.pathname, Str_presentation) THEN Str_kindSlides
                      ELSE Str_kindDocs
    IN  IF isChromeUrl(url)
        THEN <<Item(url, IF blank THEN url ELSE finalTitle, Str_kindChrome, <<>>, <<>>)>>
        ELSE IF ~u.ok THEN <<>>
        ELSE IF ~HOST_ALLOW(u.hostname) THEN <<>>
        ELSE IF Contains(u.hostname, Str_docsHost)
        THEN <<Item(Href(url),
                    IF blank THEN <<"[">> \o docKind \o <<"]", " ">> \o Segment(segs, 4)
                    ELSE finalTitle,
                    docKind, <<>>, <<>>)>>
        ELSE IF Contains(u.hostname, Str_githubHost)
        THEN <<Item(Href(url),
                    IF owner # <<>> /\ repo # <<>> /\ blank
                    THEN owner \o <<"/">> \o repo ELSE finalTitle,
                    Str_kindGitHub, <<>>, <<>>)>>
        ELSE <<Item(Href(url), finalTitle, Str_kindOther, <<>>, <<>>)>>

\* hist.map(h => normalizeItem(h.url, h.title)).filter(Boolean), and the walk
\* of the bookmark tree
RECURSIVE NormalizeItems(_)
NormalizeItems(entries) ==
    IF entries = <<>> THEN <<>>
    ELSE normalizeItem(Head(entries).url, Head(entries).title)
             \o NormalizeItems(Tail(entries))

\* a dedupe that keeps every item that has a URL
dedupeByUrl_KeepAll(arr, seen) == SelectSeq(arr, LAMBDA x : x.url # <<>>)

RECURSIVE dedupeByUrl(_, _)
dedupeByUrl(arr, seen) ==
    IF arr = <<>> THEN <<>>
    ELSE LET normalized == normalizeUrlForDedup(Head(arr).url)
         IN  IF Head(arr).url = <<>> \/ normalized \in seen
             THEN dedupeByUrl(Tail(arr), seen)
             ELSE <<Head(arr)>> \o dedupeByUrl(Tail(arr), seen \cup {normalized})

\* the index of buildIndex, from the bookmarks and the history of the browser
buildIndex(bookmarks, hist) ==
    dedupeByUrl(NormalizeItems(bookmarks) \o NormalizeItems(hist), {})

(***************************************************************************)
(* The ranking pipeline of onInputChanged and onInputEntered               *)
(***************************************************************************)
\* `${item.title} ${item.url}`.toLowerCase()
Searchable(item) == toLowerCase(item.title \o <<" ">> \o item.url)

\* quickFilter
QuickFilter(q, idx) ==
    IF Len(q) > 0
    THEN SelectSeq(idx, LAMBDA item : q[1] \in ElementsOf(Searchable(item)))
    ELSE idx

\* quickFilter.map(...): item with textScore + clusterBoost
RECURSIVE MapScore(_, _, _, _)
MapScore(q, items, openUrls, co) ==
    IF items = <<>> THEN <<>>
    ELSE <<[item  |-> Head(items),
            score |-> Plus(calculateWeightedTextScore(q, Head(items)),
                           calculateClusterBoost(co, Head(items).url, openUrls))]>>
         \o MapScore(q, Tail(items), openUrls, co)

\* .filter(x => x.score !== -Infinity)
Scored(q, idx, openUrls, co) ==
    SelectSeq(MapScore(q, QuickFilter(q, idx), openUrls, co), LAMBDA x : ~x.score.inf)

\* a sort that puts x in front of the elements whose score equals its own
RECURSIVE InsertByScore_BeforeEqual(_, _)
InsertByScore_BeforeEqual(sorted, x) ==
    IF sorted = <<>> THEN <<x>>
    ELSE IF ScoreGE(Head(sorted).score, x.score) /\ ~ScoreGE(x.score, Head(sorted).score)
         THEN <<Head(sorted)>> \o InsertByScore_BeforeEqual(Tail(sorted), x)
         ELSE <<x>> \o sorted

\* Array.prototype.sort((a, b) => b.score - a.score), a stable sort: x goes
\* behind every element whose score is at least its own
RECURSIVE InsertByScore(_, _)
InsertByScore(sorted, x) ==
    IF sorted = <<>> THEN <<x>>
    ELSE IF ScoreGE(Head(sorted).score, x.score)
         THEN <<Head(sorted)>> \o InsertByScore(Tail(sorted), x)
         ELSE <<x>> \o sorted
RECURSIVE SortByScore(_)
SortByScore(scored) ==
    IF scored = <<>> THEN <<>>
    ELSE InsertByScore(SortByScore(SubSeq(scored, 1, Len(scored) - 1)), scored[Len(scored)])

\* a walk that keeps the last item of each identity instead of the first
RECURSIVE DedupeScored_KeepLast(_, _)
DedupeScored_KeepLast(scored, seenUrls) ==
    IF scored = <<>> THEN <<>>
    ELSE IF \E k \in 2..Len(scored) :
                normalizeUrlForDedup(scored[k].item.url)
                    = normalizeUrlForDedup(Head(scored).item.url)
         THEN DedupeScored_KeepLast(Tail(scored), seenUrls)
         ELSE <<Head(scored)>> \o DedupeScored_KeepLast(Tail(scored), seenUrls)

\* the loop that fills uniqueScored
RECURSIVE DedupeScored(_, _)
DedupeScored(scored, seenUrls) ==
    IF scored = <<>> THEN <<>>
    ELSE LET normalized == normalizeUrlForDedup(Head(scored).item.url)
         IN  IF normalized \in seenUrls THEN DedupeScored(Tail(scored), seenUrls)
             ELSE <<Head(scored)>> \o DedupeScored(Tail(scored), seenUrls \cup {normalized})

UniqueScored(q, idx, openUrls, co) ==
    DedupeScored(SortByScore(Scored(q, idx, openUrls, co)), {})

\* getOpenNormalizedUrls
getOpenNormalizedUrls(openTabs) == NormalizeAll(openTabs)

(***************************************************************************)
(* isFullUrlQuery, normalizeUrlQuery                                       *)
(***************************************************************************)
Str_schemeSep == <<":", "/", "/">>
Str_httpsSlashes == <<"h", "t", "t", "p", "s", ":", "/", "/">>
IsDomainChar(c) == IsAlpha(c) \/ c \in DOMAIN LowerOf \/ IsDigit(c) \/ c \in {".", "-"}
IsLetter(c) == IsAlpha(c) \/ c \in DOMAIN LowerOf

\* /^[a-z0-9.-]+\.[a-z]{2,}/i matches a prefix of s that ends at index e
DomainPrefixEnds(s) ==
    {e \in 1..Len(s) :
        \E dot \in 2..(e - 2) :
            /\ s[dot] = "."
            /\ \A i \in 1..(dot - 1) : IsDomainChar(s[i])
            /\ \A i \in (dot + 1)..e : IsLetter(s[i])}

isFullUrlQuery(query) ==
    LET trimmed == trim(query)
    IN  \/ Contains(trimmed, Str_schemeSep)
        \/ \E e \in DomainPrefixEnds(trimmed) :
              e = Len(trimmed) \/ trimmed[e + 1] = "/" \/ IsSpace(trimmed[e + 1])

normalizeUrlQuery(query) ==
    LET trimmed == trim(query)
    IN  IF Contains(trimmed, Str_schemeSep) THEN trimmed
        ELSE IF DomainPrefixEnds(trimmed) # {} THEN Str_httpsSlashes \o trimmed
        ELSE trimmed

(***************************************************************************)
(* Specification of the matcher: fuzzyScore applied to every query and     *)
(* target within the bounds                                                *)
(***************************************************************************)
QueryAlphabet == {"a", "b", " "}
TargetAlphabet == {"a", "b"}
Queries == SeqsUpTo(QueryAlphabet, MaxQueryLen)
Targets == SeqsUpTo(TargetAlphabet, MaxTargetLen)

MatchIdle == fq = <<>> /\ ft = <<>> /\ fres = <<>>
UrlIdle == nbase = <<>> /\ nurl = <<>> /\ nurl2 = <<>> /\ nres = <<>> /\ nagain = <<>>
BoostIdle == bco = NullData /\ burl = <<>> /\ bopen = <<>> /\ bres = <<>>
\* no onInputChanged call is waiting
NoCall == [pc |-> "idle"]
StoreIdle ==
    /\ now = 0
    /\ indexCacheTimestamp = 0
    /\ storedIndex = <<>>
    /\ index_timestamp = <<>>
    /\ cacheBuiltAt = 0
    /\ storedBuiltAt = 0
    /\ inflight = NoCall
\* no scheduler is running
TimerIdle ==
    /\ clock = 0
    /\ lastSnapshotTime = 0
    /\ periodicTimers = <<>>
    /\ snapshotCalls = <<>>
    /\ snapshotStarts = <<>>
\* one tab, no request for a snapshot under way
ScreenIdle ==
    /\ activeTabId = 1
    /\ tabPages = [tab \in ScreenTabs |-> 0]
    /\ screenRequests = <<>>
    /\ screenTimestamp = 0
SysIdle ==
    /\ startup = {}
    /\ indexCache = NullIndex
    /\ indexCacheFresh = FALSE
    /\ coOccurrenceData = NullData
    /\ snapshotTimeout = FALSE
    /\ urlCoOccurrence = <<>>
    /\ tabs = <<>>
    /\ screenSnapshot = NoSnapshot
    /\ suggested = <<>>
    /\ opened = <<>>
    /\ StoreIdle
    /\ TimerIdle
    /\ ScreenIdle

InitMatch ==
    /\ fq \in Queries
    /\ ft \in Targets
    /\ fres = <<>>
    /\ UrlIdle
    /\ BoostIdle
    /\ SysIdle

CallFuzzyScore ==
    /\ fres = <<>>
    /\ fres' = <<fuzzyScore(fq, ft)>>
    /\ UNCHANGED <<fq, ft, urlVars, boostVars, sysVars>>

NextMatch == CallFuzzyScore

SpecMatch == InitMatch /\ [][NextMatch]_vars

(***************************************************************************)
(* Specification of the normalizer: normalizeUrlForDedup applied to two    *)
(* URLs that share everything up to a tail of trailing path segments,      *)
(* query and fragment, and applied again to its own result                 *)
(***************************************************************************)
UrlSchemes == {<<"h", "t", "t", "p", "s", ":">>, <<"h", "t", "t", "p", ":">>, <<"m", "a", "i", "l", "t", "o", ":">>, <<>>}
UrlSlashes == {<<"/", "/">>, <<>>}
UrlAuthorities == {<<"d", "o", "c", "s", ".", "g", "o", "o", "g", "l", "e", ".", "c", "o", "m">>, <<"g", "i", "t", "h", "u", "b", ".", "c", "o", "m">>, <<"e", "x", ".", "c", "o", "m">>, <<"u", "@", "g", "i", "t", "h", "u", "b", ".", "c", "o", "m">>,
                   <<"g", "i", "t", "h", "u", "b", ".", "c", "o", "m", ":", "8", "0">>, <<"g", "i", "t", "h", "u", "b", ".", "c", "o", "m", ":", "x">>, <<>>}
UrlPaths == {<<>>, <<"/", "d", "o", "c", "u", "m", "e", "n", "t", "/", "d", "/", "i">>, <<"/", "s", "p", "r", "e", "a", "d", "s", "h", "e", "e", "t", "s", "/", "d", "/", "i">>, <<"/", "p", "r", "e", "s", "e", "n", "t", "a", "t", "i", "o", "n", "/", "d", "/", "i">>,
             <<"/", "a", "/", "b">>, <<"/", "a">>}
UrlTrailing == {<<>>, <<"/", "e", "d", "i", "t">>, <<"/", "d", "o", "c", "u", "m", "e", "n", "t", "/", "d", "/", "x">>}
UrlQueries == {<<>>, <<"?", "q", "=", "1">>}
UrlFragments == {<<>>, <<"#", "h">>}

UrlBases == {sc \o sl \o au \o pa :
                sc \in UrlSchemes, sl \in UrlSlashes, au \in UrlAuthorities, pa \in UrlPaths}
UrlTails == {tr \o qu \o fr : tr \in UrlTrailing, qu \in UrlQueries, fr \in UrlFragments}

InitUrl ==
    /\ nbase \in UrlBases
    /\ \E t1 \in UrlTails, t2 \in UrlTails : nurl = nbase \o t1 /\ nurl2 = nbase \o t2
    /\ nres = <<>>
    /\ nagain = <<>>
    /\ MatchIdle
    /\ BoostIdle
    /\ SysIdle

CallNormalize ==
    /\ nres = <<>>
    /\ nres' = <<normalizeUrlForDedup(nurl), normalizeUrlForDedup(nurl2)>>
    /\ UNCHANGED <<nbase, nurl, nurl2, nagain, matchVars, boostVars, sysVars>>

CallNormalizeAgain ==
    /\ nres # <<>>
    /\ nagain = <<>>
    /\ nagain' = <<normalizeUrlForDedup(nres[1])>>
    /\ UNCHANGED <<nbase, nurl, nurl2, nres, matchVars, boostVars, sysVars>>

NextUrl == CallNormalize \/ CallNormalizeAgain

SpecUrl == InitUrl /\ [][NextUrl]_vars

(***************************************************************************)
(* The service worker: what the browser offers it                          *)
(***************************************************************************)
Url_repoAB == <<"h", "t", "t", "p", "s", ":", "/", "/", "g", "i", "t", "h", "u", "b", ".", "c", "o", "m", "/", "a", "/", "b">>
Url_repoABC == <<"h", "t", "t", "p", "s", ":", "/", "/", "g", "i", "t", "h", "u", "b", ".", "c", "o", "m", "/", "a", "/", "b", "/", "c">>
Url_docI == <<"h", "t", "t", "p", "s", ":", "/", "/", "d", "o", "c", "s", ".", "g", "o", "o", "g", "l", "e", ".", "c", "o", "m", "/", "d", "o", "c", "u", "m", "e", "n", "t", "/", "d", "/", "i">>
Url_docIEdit == <<"h", "t", "t", "p", "s", ":", "/", "/", "d", "o", "c", "s", ".", "g", "o", "o", "g", "l", "e", ".", "c", "o", "m", "/", "d", "o", "c", "u", "m", "e", "n", "t", "/", "d", "/", "i", "/", "e", "d", "i", "t">>
Url_chromeX == <<"c", "h", "r", "o", "m", "e", ":", "/", "/", "x">>
Url_other == <<"h", "t", "t", "p", "s", ":", "/", "/", "e", "x", ".", "c", "o", "m", "/">>
Url_gmail == <<"h", "t", "t", "p", "s", ":", "/", "/", "m", "a", "i", "l", ".", "g", "o", "o", "g", "l", "e", ".", "c", "o", "m", "/">>

\* items of an index in storage; Item_docI carries extracted content
Item_repoAB == Item(Url_repoAB, <<"A", "b">>, Str_kindGitHub, <<>>, <<>>)
Item_repoABC == Item(Url_repoABC, <<"a", "b", "a", "b">>, Str_kindGitHub, <<>>, <<>>)
Item_docI == Item(Url_docI, <<"a", "x", "x", "b", "x", "x", "a", "x", "x", "b">>, Str_kindDoc, <<"a", "x", "x", "b", "x", "x", "a", "x", "x", "b">>, <<>>)

\* the key index of chrome.storage.local as loadIndexToMemory may find it:
\* <<>> when absent, else <<the array>>.  An array written by the earlier
\* background script, which deduplicated by exact URL, may hold two items of
\* one identity.
StoredIndexes ==
    {<<>>, <<<<Item_docI>>>>, <<<<Item_repoABC, Item_repoAB, Item_docI>>>>}

\* chrome.bookmarks.getTree and chrome.history.search
BrowserBookmarks == <<[url |-> Url_repoAB, title |-> <<"A", "b">>]>>
BrowserHistory ==
    <<[url |-> Url_repoABC, title |-> <<"a", "b", "a", "b">>],
      [url |-> Url_docIEdit, title |-> <<"a", "x", "x", "b", "x", "x", "a", "x", "x", "b">>],
      [url |-> Url_other, title |-> <<"x">>]>>

\* what buildIndex makes of the bookmarks and the history of the browser
BuiltIndex == buildIndex(BrowserBookmarks, BrowserHistory)

\* what the content script of the active tab answers to collectVisibleLinks
\* and detectOTPScreen
Link(text, url) == [text |-> text, url |-> url]
PageSnapshots ==
    {[tabId |-> 1, links |-> <<>>, otpGmailUrl |-> Url_gmail],
     [tabId |-> 1, otpGmailUrl |-> <<>>,
      links |-> <<Link(<<"a", "b">>, Url_other), Link(<<"a", "b">>, Url_other), Link(<<"a", "b">>, Url_other),
                  Link(<<"a", "b">>, Url_other), Link(<<"a", "b">>, Url_other), Link(<<"b">>, Url_other)>>]}

\* the URLs a tab of the model may show
TabUrls == {Url_repoAB, Url_docI}
GraphTabUrls == {Url_repoAB, Url_repoABC, Url_docI, Url_chromeX, Url_other}

\* the texts typed into the omnibox
Texts == {<<>>, <<" ">>, <<"a", "b">>, <<"a", "b", "a", "b">>, <<"a", "b", ".", "c", "o">>}

(***************************************************************************)
(* Startup (lines 889-897): loadCoOccurrenceData and loadIndexToMemory     *)
(***************************************************************************)
LoadCoOccurrenceData ==
    /\ "graph" \in startup
    /\ startup' = startup \ {"graph"}
    /\ coOccurrenceData' = IF urlCoOccurrence # <<>> THEN Loaded(urlCoOccurrence[1])
                           ELSE Loaded(EmptyObject)
    /\ suggested' = <<>>
    /\ opened' = <<>>
    /\ UNCHANGED <<probeVars, timerVars, screenVars, storeVars, indexVars, snapshotTimeout, urlCoOccurrence,
                   tabs, screenSnapshot>>

LoadIndexToMemory ==
    /\ "index" \in startup
    /\ startup' = startup \ {"index"}
    /\ \E index \in StoredIndexes :
          IF index # <<>>
          THEN /\ indexCache' = LoadedIndex(index[1])
               /\ indexCacheFresh' = TRUE
          ELSE /\ indexCache' = LoadedIndex(BuiltIndex)
               /\ indexCacheFresh' = TRUE
    /\ suggested' = <<>>
    /\ opened' = <<>>
    /\ UNCHANGED <<probeVars, timerVars, screenVars, storeVars, graphVars, tabs, screenSnapshot>>

\* INDEX_CACHE_TTL passes
IndexCacheExpires ==
    /\ indexCache.loaded
    /\ indexCacheFresh
    /\ indexCacheFresh' = FALSE
    /\ suggested' = <<>>
    /\ opened' = <<>>
    /\ UNCHANGED <<probeVars, timerVars, screenVars, storeVars, startup, indexCache, graphVars, tabs, screenSnapshot>>

\* getIndexFast: the array it returns; it leaves the cache holding it, fresh
getIndexFast ==
    IF indexCache.loaded /\ indexCacheFresh THEN indexCache.items
    ELSE BuiltIndex

(***************************************************************************)
(* The tabs of the browser and the co-occurrence tracker                   *)
(***************************************************************************)
TabCreated(urls, maxTabs) ==
    /\ Len(tabs) < maxTabs
    /\ \E url \in urls : tabs' = Append(tabs, url)
    /\ suggested' = <<>>
    /\ opened' = <<>>
    /\ UNCHANGED <<probeVars, timerVars, screenVars, storeVars, startup, indexVars, graphVars, screenSnapshot>>

TabRemoved ==
    /\ \E i \in 1..Len(tabs) : tabs' = SubSeq(tabs, 1, i - 1) \o SubSeq(tabs, i + 1, Len(tabs))
    /\ suggested' = <<>>
    /\ opened' = <<>>
    /\ UNCHANGED <<probeVars, timerVars, screenVars, storeVars, startup, indexVars, graphVars, screenSnapshot>>

\* the greatest count of the graph
MaxCountIn(data) ==
    LET counts == UNION {{data[a][b] : b \in DOMAIN data[a]} : a \in DOMAIN data}
    IN  IF counts = {} THEN 0 ELSE CHOOSE c \in counts : \A d \in counts : d <= c

\* the URLs snapshotOpenTabs passes to recordCoOccurrence
SnapshotUrls == SelectSeq(tabs, InScope)

\* snapshotOpenTabs, taken by the timers of lines 864, 875, 883 and at startup
SnapshotOpenTabs(maxCount) ==
    /\ "graph" \notin startup
    /\ MaxCountIn(coOccurrenceData.data) < maxCount
    /\ IF Len(SnapshotUrls) > 1 /\ coOccurrenceData.loaded
       THEN /\ coOccurrenceData' = RecordedData(coOccurrenceData, SnapshotUrls)
            /\ snapshotTimeout' = TRUE
       ELSE UNCHANGED <<coOccurrenceData, snapshotTimeout>>
    /\ suggested' = <<>>
    /\ opened' = <<>>
    /\ UNCHANGED <<probeVars, timerVars, screenVars, storeVars, startup, indexVars, urlCoOccurrence, tabs,
                   screenSnapshot>>

\* the timer of recordCoOccurrence fires: saveCoOccurrenceData, whose failure
\* is logged
SaveCoOccurrenceData ==
    /\ snapshotTimeout
    /\ snapshotTimeout' = FALSE
    /\ \/ urlCoOccurrence' = <<coOccurrenceData.data>>
       \/ UNCHANGED urlCoOccurrence
    /\ suggested' = <<>>
    /\ opened' = <<>>
    /\ UNCHANGED <<probeVars, timerVars, screenVars, storeVars, startup, indexVars, coOccurrenceData, tabs,
                   screenSnapshot>>

(***************************************************************************)
(* The screen snapshot                                                     *)
(***************************************************************************)
\* requestScreenSnapshot: null (ok = FALSE) without permission or active tab,
\* the cached snapshot while it is fresh, else what the page answers
RequestOutcomes ==
    {[ok |-> FALSE, snap |-> screenSnapshot]}
        \cup (IF screenSnapshot.tabId = 1 THEN {[ok |-> TRUE, snap |-> screenSnapshot]}
              ELSE {})
        \cup {[ok |-> TRUE, snap |-> page] : page \in PageSnapshots}

OnInputStarted ==
    /\ \E outcome \in RequestOutcomes : screenSnapshot' = outcome.snap
    /\ suggested' = <<>>
    /\ opened' = <<>>
    /\ UNCHANGED <<probeVars, timerVars, screenVars, storeVars, startup, indexVars, graphVars, tabs>>

\* chrome.tabs.onActivated
OnActivated ==
    /\ screenSnapshot # NoSnapshot
    /\ screenSnapshot' = NoSnapshot
    /\ suggested' = <<>>
    /\ opened' = <<>>
    /\ UNCHANGED <<probeVars, timerVars, screenVars, storeVars, startup, indexVars, graphVars, tabs>>

(***************************************************************************)
(* The omnibox handlers.  A suggestion is its content and the branch that  *)
(* pushed it (kind): "url", "otp", "link", "index", "google".              *)
(***************************************************************************)
maxSuggestions == 6
Min(a, b) == IF a < b THEN a ELSE b
Suggestion(kind, content) == [kind |-> kind, content |-> content]

Str_googleSearch == <<"h", "t", "t", "p", "s", ":", "/", "/", "w", "w", "w", ".", "g", "o", "o", "g", "l", "e", ".", "c", "o", "m", "/", "s", "e", "a", "r", "c", "h", "?", "q", "=">>
\* encodeURIComponent on the characters of the model
EncodeChar(c) ==
    IF c = " " THEN <<"%", "2", "0">> ELSE IF c = ":" THEN <<"%", "3", "A">> ELSE IF c = "/" THEN <<"%", "2", "F">>
    ELSE IF c = "?" THEN <<"%", "3", "F">> ELSE IF c = "#" THEN <<"%", "2", "3">> ELSE IF c = "=" THEN <<"%", "3", "D">>
    ELSE IF c = "@" THEN <<"%", "4", "0">> ELSE <<c>>
RECURSIVE encodeURIComponent(_)
encodeURIComponent(s) ==
    IF s = <<>> THEN <<>> ELSE EncodeChar(Head(s)) \o encodeURIComponent(Tail(s))
GoogleSearchUrl(text) == Str_googleSearch \o encodeURIComponent(text)

\* !q || link.text.toLowerCase().includes(q) || link.url.toLowerCase().includes(q)
LinkMatches(link, q) ==
    q = <<>> \/ Contains(toLowerCase(link.text), q) \/ Contains(toLowerCase(link.url), q)

RECURSIVE LinkSuggestions(_, _)
LinkSuggestions(links, q) ==
    IF links = <<>> THEN <<>>
    ELSE (IF LinkMatches(Head(links), q) THEN <<Suggestion("link", Head(links).url)>>
          ELSE <<>>) \o LinkSuggestions(Tail(links), q)

\* the suggestions pushed before the index is consulted (lines 499-527)
PrioritySuggestions(text, snapshot) ==
    (IF isFullUrlQuery(text) THEN <<Suggestion("url", normalizeUrlQuery(text))>> ELSE <<>>)
    \o (IF snapshot.tabId # 0 /\ snapshot.otpGmailUrl # <<>>
        THEN <<Suggestion("otp", snapshot.otpGmailUrl)>> ELSE <<>>)
    \o (IF snapshot.tabId # 0 THEN LinkSuggestions(snapshot.links, toLowerCase(trim(text)))
        ELSE <<>>)

\* a list that takes every item of the ranking and is never cut
SuggestionList_NoLimit(text, prior, uniqueScored) ==
    LET hasGoodMatch == uniqueScored # <<>> /\ MeetsThreshold(uniqueScored[1].score)
        fromIndex    == IF hasGoodMatch
                        THEN [i \in 1..Len(uniqueScored) |->
                                 Suggestion("index", uniqueScored[i].item.url)]
                        ELSE <<>>
    IN  IF ~hasGoodMatch /\ Len(toLowerCase(trim(text))) > 0
        THEN Append(prior \o fromIndex, Suggestion("google", GoogleSearchUrl(trim(text))))
        ELSE prior \o fromIndex

\* lines 568-600: the list handed to suggest
SuggestionList(text, prior, uniqueScored) ==
    LET q              == toLowerCase(trim(text))
        remainingSlots == maxSuggestions - Len(prior)
        hasGoodMatch   == /\ remainingSlots > 0
                          /\ uniqueScored # <<>>
                          /\ MeetsThreshold(uniqueScored[1].score)
        fromIndex      == IF hasGoodMatch
                          THEN [i \in 1..Min(remainingSlots, Len(uniqueScored)) |->
                                   Suggestion("index", uniqueScored[i].item.url)]
                          ELSE <<>>
        withIndex      == prior \o fromIndex
        all            == IF ~hasGoodMatch /\ Len(q) > 0 /\ Len(withIndex) < maxSuggestions
                          THEN Append(withIndex, Suggestion("google", GoogleSearchUrl(trim(text))))
                          ELSE withIndex
    IN  SubSeq(all, 1, Min(maxSuggestions, Len(all)))

\* the browser has taken what the last omnibox event gave it
Delivered == suggested = <<>> /\ opened = <<>>

\* lines 530-600 of onInputChanged: the list handed to suggest
ChangedList(text) ==
    LET q     == toLowerCase(trim(text))
        prior == PrioritySuggestions(text, screenSnapshot)
    IN  SuggestionList(text, prior,
            UniqueScored(q, getIndexFast, getOpenNormalizedUrls(tabs), coOccurrenceData))

OnInputChanged(text) ==
    /\ Delivered
    /\ suggested' = <<text, ChangedList(text)>>
    /\ opened' = <<>>
    /\ indexCache' = LoadedIndex(getIndexFast)
    /\ indexCacheFresh' = TRUE
    /\ UNCHANGED <<probeVars, timerVars, screenVars, storeVars, startup, graphVars, tabs, screenSnapshot>>

Str_httpSlashes == <<"h", "t", "t", "p", ":", "/", "/">>
\* /^https?:\/\//i, /^chrome:\/\//i, /^chrome-extension:\/\//i
IsUrlText(text) ==
    \E pre \in {Str_httpSlashes, Str_httpsSlashes, Str_chrome, Str_chromeExtension} :
        StartsWith(toLowerCase(text), pre)

\* the first link of the snapshot that matches, <<>> when none does
RECURSIVE MatchingLink(_, _)
MatchingLink(links, q) ==
    IF links = <<>> THEN <<>>
    ELSE IF LinkMatches(Head(links), q) THEN <<Head(links)>>
    ELSE MatchingLink(Tail(links), q)

\* lines 619-631: the url the snapshot gives, <<>> when it gives none
SnapshotTarget(outcome, q) ==
    IF ~outcome.ok THEN <<>>
    ELSE IF outcome.snap.otpGmailUrl # <<>> THEN Suggestion("otp", outcome.snap.otpGmailUrl)
    ELSE IF MatchingLink(outcome.snap.links, q) # <<>>
         THEN Suggestion("link", MatchingLink(outcome.snap.links, q)[1].url)
    ELSE <<>>

\* lines 672-681
IndexTarget(text, uniqueScored) ==
    IF uniqueScored # <<>> /\ MeetsThreshold(uniqueScored[1].score)
    THEN Suggestion("index", uniqueScored[1].item.url)
    ELSE Suggestion("google", GoogleSearchUrl(text))

\* lines 634-681 of onInputEntered: the target the ranking gives
EnteredTarget(text) ==
    IndexTarget(text, UniqueScored(toLowerCase(trim(text)), getIndexFast,
                                   getOpenNormalizedUrls(tabs), coOccurrenceData))

\* the snapshot gives a target for the query
HasSnapshotTarget(outcome, q) ==
    SnapshotTarget(outcome, q) # <<>> /\ SnapshotTarget(outcome, q).content # <<>>

\* lines 604-688 of onInputEntered; the tab it asks the browser for appears
\* with TabCreated
Entered(text) ==
    /\ suggested' = <<>>
    /\ IF IsUrlText(text)
       THEN /\ opened' = <<text, Suggestion("url", text)>>
            /\ UNCHANGED <<indexVars, screenSnapshot>>
       ELSE IF isFullUrlQuery(text)
       THEN /\ opened' = <<text, Suggestion("url", normalizeUrlQuery(text))>>
            /\ UNCHANGED <<indexVars, screenSnapshot>>
       ELSE \/ \E outcome \in RequestOutcomes :
                 /\ HasSnapshotTarget(outcome, toLowerCase(trim(text)))
                 /\ screenSnapshot' = outcome.snap
                 /\ opened' = <<text, SnapshotTarget(outcome, toLowerCase(trim(text)))>>
                 /\ UNCHANGED indexVars
            \/ /\ opened' = <<text, EnteredTarget(text)>>
               /\ indexCache' = LoadedIndex(getIndexFast)
               /\ indexCacheFresh' = TRUE
               /\ \E outcome \in RequestOutcomes :
                     /\ ~HasSnapshotTarget(outcome, toLowerCase(trim(text)))
                     /\ screenSnapshot' = outcome.snap
    /\ UNCHANGED <<probeVars, timerVars, screenVars, storeVars, startup, graphVars, tabs>>

\* onInputEntered on a text of its own
OnInputEntered(text) == Delivered /\ Entered(text)

\* onInputEntered on the text whose suggestions are showing
OnInputEnteredShown == suggested # <<>> /\ opened = <<>> /\ Entered(suggested[1])

(***************************************************************************)
(* Specification of the ranking: startup, the index, the tabs, the graph,  *)
(* the screen snapshot and the omnibox handlers                            *)
(***************************************************************************)
Init ==
    /\ startup = {"index", "graph"}
    /\ indexCache = NullIndex
    /\ indexCacheFresh = FALSE
    /\ coOccurrenceData = NullData
    /\ snapshotTimeout = FALSE
    /\ urlCoOccurrence = <<>>
    /\ tabs = <<>>
    /\ screenSnapshot = NoSnapshot
    /\ suggested = <<>>
    /\ opened = <<>>
    /\ StoreIdle
    /\ TimerIdle
    /\ ScreenIdle
    /\ MatchIdle
    /\ UrlIdle
    /\ BoostIdle

NextRank ==
    \/ LoadCoOccurrenceData
    \/ LoadIndexToMemory
    \/ IndexCacheExpires
    \/ TabCreated(TabUrls, MaxTabs)
    \/ TabRemoved
    \/ SnapshotOpenTabs(MaxCount)
    \/ OnInputStarted
    \/ OnActivated
    \/ \E text \in Texts : OnInputChanged(text)
    \/ \E text \in Texts : OnInputEntered(text)

SpecRank == Init /\ [][NextRank]_vars

(***************************************************************************)
(* Specification of Enter on the suggestions that are showing              *)
(***************************************************************************)
NextEnter ==
    \/ LoadIndexToMemory
    \/ OnInputStarted
    \/ \E text \in Texts : OnInputChanged(text)
    \/ OnInputEnteredShown

SpecEnter == Init /\ [][NextEnter]_vars

(***************************************************************************)
(* The index in time and in storage.  The clock advances in steps of       *)
(* TickSeconds and times are counted in such steps.  A value of this       *)
(* section called st is the in-memory index with its timestamp and         *)
(* the two keys of chrome.storage.local; cbuilt and sbuilt remember when   *)
(* buildIndex read the history that the index in memory and the index in   *)
(* storage were made from.                                                 *)
(***************************************************************************)
TickSeconds == 150
\* 5 * 60 * 1000 ms, in seconds
INDEX_CACHE_TTL == 300
\* 60 * 1000 ms of onVisited, in seconds
VisitInterval == 60

Url_repoCD == <<"h", "t", "t", "p", "s", ":", "/", "/", "g", "i", "t", "h", "u", "b", ".", "c", "o", "m", "/", "c", "/", "d">>
\* the tabs extractContentAsync is called for, and response.data of the
\* content script
ExtractUrls == {Url_docI, Url_repoCD, Url_other}
ExtractedPages ==
    {[title |-> <<"y">>, content |-> <<"x", "z", "z">>, headings |-> <<"a", "b">>]}
\* the texts typed while the index changes
IndexTexts == {<<"x", "z", "z">>, <<>>}

\* indexCache && (Date.now() - indexCacheTimestamp) < INDEX_CACHE_TTL
IsFresh(cache, timestamp, t) ==
    cache.loaded /\ (t - timestamp) * TickSeconds < INDEX_CACHE_TTL

CurrentStore ==
    [cache |-> indexCache, cts |-> indexCacheTimestamp, cbuilt |-> cacheBuiltAt,
     stored |-> storedIndex, stamp |-> index_timestamp, sbuilt |-> storedBuiltAt]

Returned(st) == [threw |-> FALSE, st |-> st]
Threw(st) == [threw |-> TRUE, st |-> st]

\* buildIndex at time t: chrome.storage.local.set resolves and the cache is
\* replaced, or it rejects and buildIndex throws before line 265
BuiltStore(index, t) ==
    [cache |-> LoadedIndex(index), cts |-> t, cbuilt |-> t,
     stored |-> <<index>>, stamp |-> <<t>>, sbuilt |-> t]
buildIndexOutcomes(st, t) == {Threw(st), Returned(BuiltStore(BuiltIndex, t))}

\* loadIndexToMemory at time t
loadIndexToMemoryOutcomes(st, t) ==
    IF st.stored # <<>>
    THEN {Returned([st EXCEPT !.cache = LoadedIndex(st.stored[1]),
                              !.cts = IF st.stamp # <<>> THEN st.stamp[1] ELSE t,
                              !.cbuilt = st.sbuilt])}
    ELSE buildIndexOutcomes(st, t)

\* getIndexFast at time t; the array it returns is the cache of the outcome
getIndexFastOutcomes(st, t) ==
    IF IsFresh(st.cache, st.cts, t) THEN {Returned(st)} ELSE buildIndexOutcomes(st, t)

\* the six variables take the values of st
SetStore(st) ==
    /\ indexCache' = st.cache
    /\ indexCacheTimestamp' = st.cts
    /\ cacheBuiltAt' = st.cbuilt
    /\ storedIndex' = st.stored
    /\ index_timestamp' = st.stamp
    /\ storedBuiltAt' = st.sbuilt

\* indexCache.findIndex(item => normalizeUrlForDedup(item.url) === normalizedUrl),
\* 0 for -1
FindIndex(items, normalizedUrl) ==
    LET hits == {i \in 1..Len(items) : normalizeUrlForDedup(items[i].url) = normalizedUrl}
    IN  IF hits = {} THEN 0 ELSE CHOOSE i \in hits : \A j \in hits : i <= j

\* lines 420-439 of extractContentAsync: the items of indexCache afterwards
Extracted(items, url, page) ==
    LET itemIndex == FindIndex(items, normalizeUrlForDedup(url))
        newItem   == normalizeItem(url, page.title)
    IN  IF itemIndex > 0
        THEN [items EXCEPT ![itemIndex] =
                 [@ EXCEPT !.content = page.content,
                           !.headings = page.headings,
                           !.title = IF trim(page.title) # <<>> THEN trim(page.title) ELSE @]]
        ELSE IF newItem = <<>> THEN items
        ELSE Append(items, [newItem[1] EXCEPT !.content = page.content,
                                              !.headings = page.headings])

\* the positions of idx that idx.filter(...) of lines 534-539 keeps
QuickPositions(q, idx) ==
    LET RECURSIVE From_(_)
        From_(i) == IF i > Len(idx) THEN <<>>
                    ELSE (IF q = <<>> \/ q[1] \in ElementsOf(Searchable(idx[i]))
                          THEN <<i>> ELSE <<>>) \o From_(i + 1)
    IN  From_(1)

\* the waiting call sees the objects of the array it was given: their values
\* after the array has become items.  With an empty query quickFilter is the
\* array itself.
Seen(call, items) ==
    IF call.pc = "openUrls" /\ call.attached
    THEN LET positions == IF call.q = <<>> THEN [i \in 1..Len(items) |-> i]
                          ELSE call.positions
         IN  [call EXCEPT !.positions = positions,
                          !.items = [j \in 1..Len(positions) |-> items[positions[j]]]]
    ELSE call
\* indexCache is assigned another array: the waiting call keeps the old one
Detached(call) ==
    IF call.pc = "openUrls" THEN [call EXCEPT !.attached = FALSE] ELSE call
AfterStore(call, st) == IF st.cache = indexCache THEN call ELSE Detached(call)

\* quickFilter.map(...).filter(...), sort and the uniqueScored loop on the
\* objects of quickFilter
RankedItems(q, quickFilter, openUrls, co) ==
    DedupeScored(SortByScore(SelectSeq(MapScore(q, quickFilter, openUrls, co),
                                       LAMBDA x : ~x.score.inf)), {})

\* the clock advances
Tick ==
    /\ now < MaxTime
    /\ now' = now + 1
    /\ indexCacheFresh' = IsFresh(indexCache, indexCacheTimestamp, now + 1)
    /\ suggested' = <<>>
    /\ UNCHANGED <<probeVars, timerVars, screenVars, startup, indexCache, graphVars, tabs,
                   screenSnapshot, opened,
                   indexCacheTimestamp, storedIndex, index_timestamp, cacheBuiltAt,
                   storedBuiltAt, inflight>>

\* loadIndexToMemory of line 897, with chrome.storage.local as it is
LoadIndexFromStorage ==
    /\ "index" \in startup
    /\ startup' = startup \ {"index"}
    /\ \E outcome \in loadIndexToMemoryOutcomes(CurrentStore, now) :
          /\ SetStore(outcome.st)
          /\ indexCacheFresh' = IsFresh(outcome.st.cache, outcome.st.cts, now)
          /\ inflight' = AfterStore(inflight, outcome.st)
    /\ suggested' = <<>>
    /\ UNCHANGED <<probeVars, timerVars, screenVars, graphVars, tabs, screenSnapshot, opened, now>>

\* chrome.history.onVisited when the stored timestamp is absent or more than
\* a minute old (line 302); otherwise the listener does nothing
Visited ==
    /\ IF index_timestamp = <<>> THEN TRUE ELSE (now - index_timestamp[1]) * TickSeconds > VisitInterval
    /\ \E outcome \in buildIndexOutcomes(CurrentStore, now) :
          /\ SetStore(outcome.st)
          /\ indexCacheFresh' = IsFresh(outcome.st.cache, outcome.st.cts, now)
          /\ inflight' = AfterStore(inflight, outcome.st)
    /\ suggested' = <<>>
    /\ UNCHANGED <<probeVars, timerVars, screenVars, startup, graphVars, tabs, screenSnapshot, opened, now>>

\* lines 418-445 of extractContentAsync on the index of st, whose items
\* become items: with the write of line 442 accepted, and with it rejected.
\* The array is the one the waiting call holds unless line 415 loaded it.
ExtractedOutcomes(st, items, sameArray) ==
    {[st |-> [st EXCEPT !.cache = LoadedIndex(items), !.stored = <<items>>,
                        !.stamp = <<now>>, !.sbuilt = st.cbuilt],
      call |-> IF sameArray THEN Seen(inflight, items) ELSE Detached(inflight)],
     [st |-> [st EXCEPT !.cache = LoadedIndex(items)],
      call |-> IF sameArray THEN Seen(inflight, items) ELSE Detached(inflight)]}

\* extractContentAsync once the content script has answered with page: the
\* index afterwards and what the waiting call sees
extractContentOutcomes(url, page) ==
    UNION {IF loaded.threw
           THEN {[st |-> loaded.st, call |-> inflight]}
           ELSE ExtractedOutcomes(loaded.st,
                                  Extracted(loaded.st.cache.items, url, page),
                                  indexCache.loaded) :
           loaded \in IF indexCache.loaded THEN {Returned(CurrentStore)}
                      ELSE loadIndexToMemoryOutcomes(CurrentStore, now)}

ExtractContent(url, page) ==
    /\ \E outcome \in extractContentOutcomes(url, page) :
          /\ SetStore(outcome.st)
          /\ indexCacheFresh' = IsFresh(outcome.st.cache, outcome.st.cts, now)
          /\ inflight' = outcome.call
    /\ suggested' = <<>>
    /\ UNCHANGED <<probeVars, timerVars, screenVars, startup, graphVars, tabs, screenSnapshot, opened, now>>

\* the call of onInputChanged that waits at line 542 with the array idx, of
\* which quickFilter has the elements at positions
WaitingCall(text, idx, positions, builtAt) ==
    [pc |-> "openUrls", text |-> text, q |-> toLowerCase(trim(text)),
     prior |-> PrioritySuggestions(text, screenSnapshot),
     idx |-> idx, positions |-> positions,
     items |-> [j \in 1..Len(positions) |-> idx[positions[j]]],
     attached |-> TRUE, at |-> now, builtAt |-> builtAt]

\* onInputChanged up to its await of getOpenNormalizedUrls (line 542); when
\* buildIndex throws, the handler ends at line 530 and suggest is not called
changedStartOutcomes(text) ==
    {[st   |-> outcome.st,
      call |-> IF outcome.threw THEN [pc |-> "rejected"]
               ELSE WaitingCall(text, outcome.st.cache.items,
                                QuickPositions(toLowerCase(trim(text)),
                                               outcome.st.cache.items),
                                outcome.st.cbuilt)] :
        outcome \in getIndexFastOutcomes(CurrentStore, now)}

ChangedStart(text) ==
    /\ Delivered
    /\ inflight.pc # "openUrls"
    /\ \E outcome \in changedStartOutcomes(text) :
          /\ SetStore(outcome.st)
          /\ indexCacheFresh' = IsFresh(outcome.st.cache, outcome.st.cts, now)
          /\ inflight' = outcome.call
    /\ UNCHANGED <<probeVars, timerVars, screenVars, startup, graphVars, tabs, screenSnapshot, queryVars, now>>

\* onInputChanged from line 542 to suggest
ChangedFinish ==
    /\ inflight.pc = "openUrls"
    /\ suggested' = <<inflight.text,
                      SuggestionList(inflight.text, inflight.prior,
                          RankedItems(inflight.q, inflight.items,
                                      getOpenNormalizedUrls(tabs), coOccurrenceData))>>
    /\ inflight' = NoCall
    /\ UNCHANGED <<probeVars, timerVars, screenVars, startup, indexVars, graphVars, tabs, screenSnapshot, opened,
                   now, indexCacheTimestamp, storedIndex, index_timestamp, cacheBuiltAt,
                   storedBuiltAt>>

\* the browser stops the background script and starts it again: the globals
\* take their initial values, pending timers are gone, chrome.storage.local
\* and the tabs stay, and the top level runs again
WorkerRestart ==
    /\ startup # {"index", "graph"}
    /\ startup' = {"index", "graph"}
    /\ indexCache' = NullIndex
    /\ indexCacheFresh' = FALSE
    /\ coOccurrenceData' = NullData
    /\ snapshotTimeout' = FALSE
    /\ screenSnapshot' = NoSnapshot
    /\ suggested' = <<>>
    /\ opened' = <<>>
    /\ indexCacheTimestamp' = 0
    /\ cacheBuiltAt' = 0
    /\ inflight' = NoCall
    /\ lastSnapshotTime' = 0
    /\ periodicTimers' = <<>>
    /\ snapshotCalls' = <<>>
    /\ snapshotStarts' = <<>>
    /\ screenRequests' = <<>>
    /\ screenTimestamp' = 0
    /\ UNCHANGED <<probeVars, clock, activeTabId, tabPages, urlCoOccurrence, tabs, now,
                   storedIndex, index_timestamp, storedBuiltAt>>

(***************************************************************************)
(* Specification of the co-occurrence tracker: the tabs and the snapshots  *)
(***************************************************************************)
NextGraph ==
    \/ LoadCoOccurrenceData
    \/ TabCreated(GraphTabUrls, GraphMaxTabs)
    \/ TabRemoved
    \/ SnapshotOpenTabs(GraphMaxCount)
    \/ SaveCoOccurrenceData
    \/ WorkerRestart

SpecGraph == Init /\ [][NextGraph]_vars

\* the same with the scheduling of the code: a timer that is pending fires
\* (line 774), and the startup of line 889 completes
SpecGraphLive ==
    SpecGraph /\ WF_vars(SaveCoOccurrenceData) /\ WF_vars(LoadCoOccurrenceData)

(***************************************************************************)
(* The periodic scheduler in time.  The clock advances in steps of         *)
(* SnapshotTickSeconds; a call of snapshotOpenTabs made by the startup or   *)
(* by the periodic timer waits for chrome.tabs.query and returns before    *)
(* the clock advances, and a timer fires when the clock has reached its    *)
(* time.                                                                   *)
(***************************************************************************)
MaxClock == 4
SnapshotTickSeconds == 15
\* 45000 ms, in seconds
CO_OCCURRENCE_SNAPSHOT_INTERVAL == 45
\* Date.now() when the clock starts, in steps since the epoch
DateNowAtStart == 1000
DateNow == DateNowAtStart + clock

\* Math.max(0, CO_OCCURRENCE_SNAPSHOT_INTERVAL - timeSinceLastSnapshot), in
\* steps of the clock
SnapshotDelay(last) ==
    LET timeSinceLastSnapshot == (DateNow - last) * SnapshotTickSeconds
    IN  IF CO_OCCURRENCE_SNAPSHOT_INTERVAL - timeSinceLastSnapshot <= 0 THEN 0
        ELSE (CO_OCCURRENCE_SNAPSHOT_INTERVAL - timeSinceLastSnapshot
                  + SnapshotTickSeconds - 1) \div SnapshotTickSeconds

\* a call of snapshotOpenTabs is made now
Started(starts) == IF starts = <<>> THEN <<clock>> ELSE <<starts[Len(starts)], clock>>

\* the callback of lines 890-895 once loadCoOccurrenceData has resolved:
\* snapshotOpenTabs() is called and not awaited, then scheduleNextSnapshot()
StartTracking ==
    /\ "graph" \in startup
    /\ startup' = startup \ {"graph"}
    /\ coOccurrenceData' = IF urlCoOccurrence # <<>> THEN Loaded(urlCoOccurrence[1])
                           ELSE Loaded(EmptyObject)
    /\ snapshotCalls' = Append(snapshotCalls, "initial")
    /\ snapshotStarts' = Started(snapshotStarts)
    /\ periodicTimers' = Append(periodicTimers, clock + SnapshotDelay(lastSnapshotTime))
    /\ suggested' = <<>>
    /\ opened' = <<>>
    /\ UNCHANGED <<probeVars, screenVars, storeVars, indexVars, snapshotTimeout, urlCoOccurrence,
                   tabs, screenSnapshot, clock, lastSnapshotTime>>

\* the timer of line 864 fires: its callback calls snapshotOpenTabs
PeriodicTimerFires ==
    /\ \E i \in 1..Len(periodicTimers) :
          /\ periodicTimers[i] <= clock
          /\ periodicTimers' = SubSeq(periodicTimers, 1, i - 1)
                                   \o SubSeq(periodicTimers, i + 1, Len(periodicTimers))
    /\ snapshotCalls' = Append(snapshotCalls, "periodic")
    /\ snapshotStarts' = Started(snapshotStarts)
    /\ suggested' = <<>>
    /\ opened' = <<>>
    /\ UNCHANGED <<probeVars, screenVars, storeVars, startup, indexVars, graphVars, tabs,
                   screenSnapshot, clock, lastSnapshotTime>>

\* chrome.tabs.query answers the oldest waiting call of snapshotOpenTabs, or
\* rejects and the catch of line 855 logs it; the callback of the periodic
\* timer then calls scheduleNextSnapshot
SnapshotReturns ==
    /\ snapshotCalls # <<>>
    /\ snapshotCalls' = Tail(snapshotCalls)
    /\ \E answered \in BOOLEAN :
          /\ IF answered /\ Len(SnapshotUrls) > 1 /\ coOccurrenceData.loaded
             THEN /\ coOccurrenceData' = RecordedData(coOccurrenceData, SnapshotUrls)
                  /\ snapshotTimeout' = TRUE
             ELSE UNCHANGED <<coOccurrenceData, snapshotTimeout>>
          /\ lastSnapshotTime' = IF answered THEN DateNow ELSE lastSnapshotTime
          /\ periodicTimers' =
                 IF Head(snapshotCalls) = "periodic"
                 THEN Append(periodicTimers,
                             clock + SnapshotDelay(IF answered THEN DateNow
                                                   ELSE lastSnapshotTime))
                 ELSE periodicTimers
    /\ suggested' = <<>>
    /\ opened' = <<>>
    /\ UNCHANGED <<probeVars, screenVars, storeVars, startup, indexVars, urlCoOccurrence, tabs,
                   screenSnapshot, clock, snapshotStarts>>

\* the clock advances once everything that is due has run
ClockTick ==
    /\ clock < MaxClock
    /\ snapshotCalls = <<>>
    /\ ~snapshotTimeout
    /\ \A i \in 1..Len(periodicTimers) : periodicTimers[i] > clock
    /\ clock' = clock + 1
    /\ suggested' = <<>>
    /\ opened' = <<>>
    /\ UNCHANGED <<probeVars, screenVars, storeVars, startup, indexVars, graphVars, tabs,
                   screenSnapshot, lastSnapshotTime, periodicTimers, snapshotCalls,
                   snapshotStarts>>

(***************************************************************************)
(* Specification of the periodic scheduler: the startup of the tracker,    *)
(* its timers and its snapshots as the clock advances and tabs open        *)
(***************************************************************************)
NextSchedule ==
    \/ StartTracking
    \/ PeriodicTimerFires
    \/ SnapshotReturns
    \/ ClockTick
    \/ TabCreated(TabUrls, MaxTabs)
    \/ SaveCoOccurrenceData

SpecSchedule == Init /\ [][NextSchedule]_vars

(***************************************************************************)
(* Specification of the index: startup, history visits, content            *)
(* extraction, restarts and onInputChanged with its await, as time passes  *)
(* and chrome.storage.local accepts or rejects a write                     *)
(***************************************************************************)
NextIndex ==
    \/ Tick
    \/ LoadIndexFromStorage
    \/ Visited
    \/ \E url \in ExtractUrls, page \in ExtractedPages : ExtractContent(url, page)
    \/ \E text \in IndexTexts : ChangedStart(text)
    \/ ChangedFinish
    \/ WorkerRestart

SpecIndex == Init /\ [][NextIndex]_vars

(***************************************************************************)
(* Specification of the boost: calculateClusterBoost applied to a graph, a *)
(* suggestion URL and a list of open identities                            *)
(***************************************************************************)
BoostCandidate == normalizeUrlForDedup(Url_repoAB)
BoostNeighbour1 == normalizeUrlForDedup(Url_docI)
BoostNeighbour2 == normalizeUrlForDedup(Url_chromeX)
BoostNeighbour3 == normalizeUrlForDedup(Url_gmail)
BoostNeighbours == {BoostNeighbour1, BoostNeighbour2, BoostNeighbour3}
BoostCounts == {1, 2, 8}
\* the counts from the candidate to some of the neighbours
BoostRows == UNION {[S -> BoostCounts] : S \in SUBSET BoostNeighbours}
\* the graph recordCoOccurrence builds for a row: every count in both directions
BoostGraph(row) ==
    [a \in {BoostCandidate} \cup DOMAIN row |->
        IF a = BoostCandidate THEN row ELSE [b \in {BoostCandidate} |-> row[a]]]
BoostGraphs == {NullData, Loaded(EmptyObject)} \cup {Loaded(BoostGraph(row)) : row \in BoostRows}
BoostUrls == {Url_repoAB, Url_repoABC, Url_other}
BoostOpenLists ==
    {<<>>, <<BoostNeighbour1>>, <<BoostNeighbour3>>, <<BoostCandidate>>,
     <<BoostNeighbour1, BoostNeighbour2>>, <<BoostNeighbour2, BoostNeighbour1, BoostNeighbour1>>,
     <<BoostNeighbour1, BoostNeighbour2, BoostNeighbour3>>}

InitBoost ==
    /\ bco \in BoostGraphs
    /\ burl \in BoostUrls
    /\ bopen \in BoostOpenLists
    /\ bres = <<>>
    /\ MatchIdle
    /\ UrlIdle
    /\ SysIdle

CallClusterBoost ==
    /\ bres = <<>>
    /\ bres' = <<calculateClusterBoost(bco, burl, bopen)>>
    /\ UNCHANGED <<bco, burl, bopen, matchVars, urlVars, sysVars>>

NextBoost == CallClusterBoost

SpecBoost == InitBoost /\ [][NextBoost]_vars

(***************************************************************************)
(* Specification of the scorer: one query against an index of one or two   *)
(* items with short titles, body texts and headings                        *)
(***************************************************************************)
ScoreTitles == {<<"A", "b">>, <<"a", "x", "x", "x", "b">>, <<"b", " ", "a">>, <<"x", "a">>}
ScoreBodies == {<<>>, <<"a", "b">>, <<"b", "x", "a">>, <<"a", " ", "b">>}
ScoreHeadings == {<<>>, <<"b", "a">>, <<"a", "b">>}
ScoreItems ==
    {Item(Url_docI, title, Str_kindDoc, content, headings) :
        title \in ScoreTitles, content \in ScoreBodies, headings \in ScoreHeadings}
ScoreIndexes ==
    {<<item>> : item \in ScoreItems}
        \cup {<<item, Item(Url_repoAB, <<"x">>, Str_kindGitHub, <<>>, <<"b", "a">>)>> : item \in ScoreItems}
ScoreTexts == {<<"a", "b">>, <<"a", " ", "b">>, <<"b", "a">>, <<"b", " ", "a">>, <<"a", "x", "b">>, <<"a", "b", " ">>, <<"d", "o", "c">>, <<"z">>}

InitScore ==
    /\ startup = {}
    /\ indexCache \in {LoadedIndex(index) : index \in ScoreIndexes}
    /\ indexCacheFresh = TRUE
    /\ coOccurrenceData = Loaded(EmptyObject)
    /\ snapshotTimeout = FALSE
    /\ urlCoOccurrence = <<>>
    /\ tabs = <<>>
    /\ screenSnapshot = NoSnapshot
    /\ suggested = <<>>
    /\ opened = <<>>
    /\ StoreIdle
    /\ TimerIdle
    /\ ScreenIdle
    /\ MatchIdle
    /\ UrlIdle
    /\ BoostIdle

NextScore ==
    \/ \E text \in ScoreTexts : OnInputChanged(text)
    \/ \E text \in ScoreTexts : OnInputEntered(text)

SpecScore == InitScore /\ [][NextScore]_vars

(***************************************************************************)
(* Specification of the exact-title query: the query is the lowercased     *)
(* title of one item whose URL contains it, and the item's kind, body text *)
(* and headings vary; the other item of the index does not match           *)
(***************************************************************************)
ExactText == <<"a", "/", "b", "c", "d", "e">>
Url_repoExact == <<"h", "t", "t", "p", "s", ":", "/", "/", "g", "i", "t", "h", "u", "b", ".", "c", "o", "m", "/", "a", "/", "b", "c", "d", "e">>
ExactTitles == {<<"a", "/", "b", "c", "d", "e">>, <<"A", "/", "B", "c", "d", "e">>}
ExactKinds == {Str_kindGitHub, <<"R", "e", "p", "o">>}
\* body texts and headings: none, the query itself, the query with one
\* character in between, and the query spread over nine other characters
ExactFields ==
    {<<>>,
     <<"a", "/", "b", "c", "d", "e">>,
     <<"a", "x", "/", "b", "c", "d", "e">>,
     <<"a", "x", "x", "x", "x", "x", "x", "x", "x", "x", "/", "b", "c", "d", "e">>}
ExactItems ==
    {Item(Url_repoExact, title, kind, content, headings) :
        title \in ExactTitles, kind \in ExactKinds,
        content \in ExactFields, headings \in ExactFields}
OtherItem == Item(Url_docI, <<"x">>, Str_kindDoc, <<>>, <<>>)
ExactIndexes ==
    {<<item>> : item \in ExactItems} \cup {<<OtherItem, item>> : item \in ExactItems}

InitExact ==
    /\ startup = {}
    /\ indexCache \in {LoadedIndex(index) : index \in ExactIndexes}
    /\ indexCacheFresh = TRUE
    /\ coOccurrenceData \in {NullData, Loaded(EmptyObject)}
    /\ snapshotTimeout = FALSE
    /\ urlCoOccurrence = <<>>
    /\ tabs = <<>>
    /\ screenSnapshot = NoSnapshot
    /\ suggested = <<>>
    /\ opened = <<>>
    /\ StoreIdle
    /\ TimerIdle
    /\ ScreenIdle
    /\ MatchIdle
    /\ UrlIdle
    /\ BoostIdle

NextExact == OnInputChanged(ExactText) \/ OnInputEntered(ExactText)

SpecExact == InitExact /\ [][NextExact]_vars

(***************************************************************************)
(* Properties of the matcher                                               *)
(***************************************************************************)
\* word is a (possibly non-contiguous) subsequence of t
RECURSIVE IsSubsequence(_, _)
IsSubsequence(word, t) ==
    IF word = <<>> THEN TRUE
    ELSE IF t = <<>> THEN FALSE
    ELSE IF Head(word) = Head(t) THEN IsSubsequence(Tail(word), Tail(t))
    ELSE IsSubsequence(word, Tail(t))

ProbeWords == SplitWords(trim(toLowerCase(fq)))
ProbeTarget == toLowerCase(ft)
CharsOf(s) == {s[i] : i \in 1..Len(s)}

\* C1: for every word of the query and every target, the word matcher reports
\* a match exactly when the word is a subsequence of the target, and
\* fuzzyScore returns -Infinity when some word is not a subsequence.
C1_MatchIffSubsequence ==
    fres # <<>> =>
        /\ \A i \in 1..Len(ProbeWords) :
               MatchWord(ProbeWords[i], ProbeTarget).wordMatched
                   <=> IsSubsequence(ProbeWords[i], ProbeTarget)
        /\ (\E i \in 1..Len(ProbeWords) : ~IsSubsequence(ProbeWords[i], ProbeTarget))
               => fres[1] = NegInf

\* a word whose letters all occur in the target, in the wrong order, was rejected
C1_Witness ==
    /\ fres = <<NegInf>>
    /\ Len(ProbeWords) = 1
    /\ Len(ProbeWords[1]) >= 2
    /\ CharsOf(ProbeWords[1]) \subseteq CharsOf(ProbeTarget)
    /\ ~IsSubsequence(ProbeWords[1], ProbeTarget)

\* j exceeds the budget of a word of n letters: j > n up to three letters,
\* j > 1.5 n above
ExceedsBudget(j, n) == IF n <= 3 THEN j > n ELSE 2 * j > 3 * n

\* C2: when every word of the query is a subsequence of the target,
\* fuzzyScore returns -Infinity exactly when some word's minimum jump count
\* exceeds its budget; a count equal to the budget is accepted.
C2_JumpBudget ==
    (/\ fres # <<>>
     /\ ProbeWords # <<>>
     /\ \A i \in 1..Len(ProbeWords) : IsSubsequence(ProbeWords[i], ProbeTarget))
    => (fres[1] = NegInf
          <=> \E i \in 1..Len(ProbeWords) :
                 ExceedsBudget(MatchWord(ProbeWords[i], ProbeTarget).bestWordJumps,
                               Len(ProbeWords[i])))

\* a three-letter word that is a subsequence only with 5 skipped characters
\* was rejected
C2_Witness ==
    /\ fres = <<NegInf>>
    /\ Len(ProbeWords) = 1
    /\ Len(ProbeWords[1]) = 3
    /\ IsSubsequence(ProbeWords[1], ProbeTarget)
    /\ MatchWord(ProbeWords[1], ProbeTarget).bestWordJumps = 5

(***************************************************************************)
(* Properties of the normalizer                                            *)
(***************************************************************************)
UrlAlphabet == LowerLetters \cup DigitChars \cup {".", "-", "=", ":", "/", "?", "#", "@"}
IsUrlString(s) == \A i \in 1..Len(s) : s[i] \in UrlAlphabet

\* C7: normalizeUrlForDedup is idempotent, normalize(normalize(x)) =
\* normalize(x) for every input string x.
C7_Idempotent == nagain # <<>> => nagain[1] = nres[1]

\* the shared part is a document URL that ends in its document-ID segment
IsDocumentBase(base) ==
    /\ URLParse(base).ok
    /\ URLParse(base).hostname = Str_docsHost
    /\ \E shape \in {Str_documentD, Str_spreadsheetsD, Str_presentationD} :
          /\ StartsWith(URLParse(base).pathname, shape)
          /\ Len(SplitPath(URLParse(base).pathname, <<>>, <<>>)) = 3

\* the shared part is a code-host URL that ends in its owner/repo segments
IsRepoBase(base) ==
    /\ URLParse(base).ok
    /\ URLParse(base).hostname = Str_githubHost
    /\ Len(SplitPath(URLParse(base).pathname, <<>>, <<>>)) = 2

\* C8: two document URLs that share their document-ID segment, or two
\* code-host URLs that share owner/repo, and differ only in trailing path
\* segments, query or fragment normalize to the same identity.
C8_SameIdentity ==
    (nres # <<>> /\ (IsDocumentBase(nbase) \/ IsRepoBase(nbase))) => nres[1] = nres[2]

\* C9: normalizeUrlForDedup returns a string for every input and never
\* raises; an input that cannot be parsed is returned unchanged.
C9_TotalFailOpen ==
    nres # <<>> =>
        /\ IsUrlString(nres[1])
        /\ ~URLParse(nurl).ok => nres[1] = nurl

\* an unparseable, non-empty input came back unchanged
C9_Witness ==
    /\ nres # <<>>
    /\ nurl # <<>>
    /\ ~URLParse(nurl).ok
    /\ nres[1] = nurl

(***************************************************************************)
(* Properties of the scorer and of the ranking                             *)
(***************************************************************************)
\* the query of the omnibox event whose result the state holds
HasResult == suggested # <<>> \/ opened # <<>>
ResultText == IF suggested # <<>> THEN suggested[1] ELSE opened[1]
ResultQuery == toLowerCase(trim(ResultText))
\* the index entries of the list handed to suggest, or the index entry opened
IndexUrlsOf(list) ==
    LET entries == SelectSeq(list, LAMBDA s : s.kind = "index")
    IN  [i \in 1..Len(entries) |-> entries[i].content]
ReturnedIndexUrls ==
    IF suggested # <<>> THEN IndexUrlsOf(suggested[2]) ELSE IndexUrlsOf(<<opened[2]>>)
\* onInputEntered reached its ranking (priority 3)
RankingConsulted == suggested # <<>> \/ opened[2].kind \in {"index", "google"}
IndexItems == {indexCache.items[i] : i \in 1..Len(indexCache.items)}

\* the greatest jump count within the budget of a word of n letters
MaxJumps(n) == IF n <= 3 THEN n ELSE (3 * n) \div 2
\* the word is a subsequence of a window of t that is at most MaxJumps
\* characters longer than the word
WordWithinBudget(word, t) ==
    \E i \in 1..Len(t) : \E n \in Len(word)..(Len(word) + MaxJumps(Len(word))) :
        i + n - 1 <= Len(t) /\ IsSubsequence(word, SubSeq(t, i, i + n - 1))
\* the field matches every word of the query within its budget
FieldMatches(q, field) ==
    \A k \in 1..Len(SplitWords(q)) : WordWithinBudget(SplitWords(q)[k], toLowerCase(field))
\* the fields calculateWeightedTextScore evaluates for the query
EvaluatedFields(q, item) ==
    {item.title, item.url, item.kind}
        \cup (IF Len(q) >= 3 THEN {item.content, item.headings} ELSE {})
AllFields(item) == {item.title, item.url, item.kind, item.content, item.headings}
\* some field of the item contains every query word as an ordered subsequence
ContainsAllWords(q, item) ==
    \E field \in AllFields(item) :
        \A k \in 1..Len(SplitWords(q)) : IsSubsequence(SplitWords(q)[k], toLowerCase(field))

\* C3: for a non-empty query, calculateWeightedTextScore is -Infinity exactly
\* when no evaluated field (title, url, kind, and content and headings when
\* the query has at least 3 characters) matches every query word within its
\* jump budget; and when no item of the index has a field that contains all
\* query words as ordered subsequences, the ranking returns no index item.
C3_NoMatchIffNoField ==
    (HasResult /\ ResultQuery # <<>>) =>
        /\ \A item \in IndexItems :
               calculateWeightedTextScore(ResultQuery, item) = NegInf
                   <=> \A field \in EvaluatedFields(ResultQuery, item) :
                           ~FieldMatches(ResultQuery, field)
        /\ (\A item \in IndexItems : ~ContainsAllWords(ResultQuery, item))
               => ReturnedIndexUrls = <<>>

\* a two-word query against an index whose only item has a title with one of
\* the words but not the other, and no other field with both: the item is a
\* no-match and the list has no index entry
C3_Witness ==
    /\ suggested # <<>>
    /\ Len(SplitWords(ResultQuery)) = 2
    /\ Len(indexCache.items) = 1
    /\ \E item \in IndexItems :
          /\ IsSubsequence(SplitWords(ResultQuery)[1], toLowerCase(item.title))
          /\ ~IsSubsequence(SplitWords(ResultQuery)[2], toLowerCase(item.title))
          /\ calculateWeightedTextScore(ResultQuery, item) = NegInf
    /\ ReturnedIndexUrls = <<>>

\* the combined score the pipeline gives an item in the state of the result
CombinedScore(item) ==
    Plus(calculateWeightedTextScore(ResultQuery, item),
         calculateClusterBoost(coOccurrenceData, item.url, getOpenNormalizedUrls(tabs)))
\* a.text / 10000 + a.bn / a.bd >= b.text / 10000 + b.bn / b.bd
AtLeast(a, b) ==
    (a.text - b.text) * (a.bd * b.bd) >= 10000 * (b.bn * a.bd - a.bn * b.bd)
\* score.text / 10000 + score.bn / score.bd < -15
BelowThreshold(score) ==
    score.text * score.bd + 10000 * score.bn < (-15) * 10000 * score.bd

Candidates ==
    {item \in IndexItems :
        /\ ResultQuery # <<>> => ResultQuery[1] \in ElementsOf(Searchable(item))
        /\ ~CombinedScore(item).inf}

\* C5: the index entries returned never hold two items of the same
\* normalized identity, and a returned entry is an item whose combined
\* score is at least that of every matching item of its identity.
C5_DedupKeepsBest ==
    (HasResult /\ RankingConsulted) =>
        /\ \A i, j \in 1..Len(ReturnedIndexUrls) :
               i # j => normalizeUrlForDedup(ReturnedIndexUrls[i])
                            # normalizeUrlForDedup(ReturnedIndexUrls[j])
        /\ \A i \in 1..Len(ReturnedIndexUrls) :
               \E kept \in Candidates :
                   /\ kept.url = ReturnedIndexUrls[i]
                   /\ \A other \in Candidates :
                          normalizeUrlForDedup(other.url) = normalizeUrlForDedup(kept.url)
                              => AtLeast(CombinedScore(kept), CombinedScore(other))

\* two matching items of one identity, the better one later in the index:
\* the list has the better one and not the other
C5_Witness ==
    /\ suggested # <<>>
    /\ \E i, j \in 1..Len(indexCache.items) :
          /\ i < j
          /\ indexCache.items[i] \in Candidates
          /\ indexCache.items[j] \in Candidates
          /\ normalizeUrlForDedup(indexCache.items[i].url)
                 = normalizeUrlForDedup(indexCache.items[j].url)
          /\ ~AtLeast(CombinedScore(indexCache.items[i]), CombinedScore(indexCache.items[j]))
          /\ indexCache.items[j].url \in ElementsOf(ReturnedIndexUrls)
          /\ indexCache.items[i].url \notin ElementsOf(ReturnedIndexUrls)

\* the sorted, deduplicated list of the query whose result the state holds
ResultUniqueScored ==
    UniqueScored(ResultQuery, indexCache.items, getOpenNormalizedUrls(tabs), coOccurrenceData)
\* maxResults: the slots the higher-priority suggestions leave; one for Enter
ResultSlots ==
    IF suggested # <<>>
    THEN maxSuggestions - Len(PrioritySuggestions(ResultText, screenSnapshot))
    ELSE 1

\* C6: when the best combined score of the sorted, deduplicated list is below
\* -15 no index item is returned; when it is at least -15 the first
\* maxResults items of the list are returned whatever their own scores
\* (maxResults is 6 less the higher-priority suggestions for the suggestion
\* list, 1 for Enter).
C6_GateOnBestOnly ==
    (HasResult /\ RankingConsulted) =>
        LET unique == ResultUniqueScored
        IN  IF unique = <<>> THEN ReturnedIndexUrls = <<>>
            ELSE IF BelowThreshold(unique[1].score) THEN ReturnedIndexUrls = <<>>
            ELSE ReturnedIndexUrls =
                     [i \in 1..Min(ResultSlots, Len(unique)) |-> unique[i].item.url]

\* the best item passed the gate and an item whose own combined score is
\* below -15 was returned behind it
C6_Witness ==
    /\ suggested # <<>>
    /\ Len(ReturnedIndexUrls) >= 2
    /\ \E item \in IndexItems :
          /\ item.url \in ElementsOf(ReturnedIndexUrls)
          /\ BelowThreshold(CombinedScore(item))

(***************************************************************************)
(* Properties of the co-occurrence graph                                   *)
(***************************************************************************)
\* the count of the edge from a to b, 0 when there is none
Count(data, a, b) ==
    IF a \in DOMAIN data /\ b \in DOMAIN data[a] THEN data[a][b] ELSE 0
\* the identities of the snapshot that snapshotOpenTabs would take
ObservedIdentities == NormalizeAll(SnapshotUrls)
PairwiseDistinct(seq) == \A i, j \in 1..Len(seq) : i # j => seq[i] # seq[j]
\* a step in which snapshotOpenTabs records at least 2 distinct identities
ObservationStep ==
    /\ snapshotTimeout'
    /\ UNCHANGED <<startup, tabs, urlCoOccurrence>>
    /\ coOccurrenceData.loaded
    /\ Len(SnapshotUrls) >= 2
    /\ PairwiseDistinct(ObservedIdentities)

\* C10: an observation of at least 2 distinct identities raises the count of
\* every ordered pair of distinct identities of the set by exactly 1 and
\* leaves every other count as it was.
C10_ObservationIncrements ==
    [][ObservationStep =>
          LET observed == ElementsOf(ObservedIdentities)
              keys     == DOMAIN coOccurrenceData.data \cup DOMAIN coOccurrenceData'.data
                              \cup observed
          IN  \A a, b \in keys :
                  Count(coOccurrenceData'.data, a, b)
                      = Count(coOccurrenceData.data, a, b)
                          + (IF a # b /\ {a, b} \subseteq observed THEN 1 ELSE 0)]_vars

\* two identities observed together twice, a third one in the graph that was
\* never observed with the first
C10_Witness ==
    /\ coOccurrenceData.loaded
    /\ Count(coOccurrenceData.data, Url_repoAB, Url_docI) = 2
    /\ Count(coOccurrenceData.data, Url_docI, Url_repoAB) = 2
    /\ Url_chromeX \in DOMAIN coOccurrenceData.data
    /\ Count(coOccurrenceData.data, Url_repoAB, Url_chromeX) = 0
    /\ Count(coOccurrenceData.data, Url_chromeX, Url_repoAB) = 0

\* the counts of the graph are symmetric
Symmetric(data) ==
    \A a \in DOMAIN data : \A b \in DOMAIN data[a] : Count(data, b, a) = data[a][b]
\* a step of recordCoOccurrence on a loaded graph
RecordStep ==
    /\ coOccurrenceData.loaded
    /\ coOccurrenceData'.loaded
    /\ coOccurrenceData' # coOccurrenceData

\* C11: in every state reached from empty storage, through observations, saves
\* and restarts that load the saved graph, a count from A to B equals the
\* count from B to A; and no observation decreases a count or removes one.
C11_SymmetricMonotone ==
    /\ [](Symmetric(coOccurrenceData.data)
           /\ (urlCoOccurrence # <<>> => Symmetric(urlCoOccurrence[1])))
    /\ [][RecordStep =>
             \A a \in DOMAIN coOccurrenceData.data :
                 /\ a \in DOMAIN coOccurrenceData'.data
                 /\ \A b \in DOMAIN coOccurrenceData.data[a] :
                        Count(coOccurrenceData'.data, a, b) >= coOccurrenceData.data[a][b]]_vars

\* the graph was saved with one observation of a pair, loaded again after a
\* restart, and the pair was observed once more
C11_Witness ==
    /\ coOccurrenceData.loaded
    /\ urlCoOccurrence # <<>>
    /\ Count(urlCoOccurrence[1], Url_repoAB, Url_docI) = 1
    /\ Count(coOccurrenceData.data, Url_repoAB, Url_docI) = 2
    /\ Count(coOccurrenceData.data, Url_docI, Url_repoAB) = 2

(***************************************************************************)
(* Properties of the boost                                                 *)
(***************************************************************************)
\* what the graph of the probe records for the candidate
ProbeRow ==
    IF bco.loaded /\ normalizeUrlForDedup(burl) \in DOMAIN bco.data
    THEN bco.data[normalizeUrlForDedup(burl)] ELSE EmptyObject
ProbeActive == DOMAIN ProbeRow \cap ElementsOf(bopen)
\* the sum of the counts of ProbeRow toward the identities of S
ProbeCounts(S) == Cardinality(UNION {{<<k, i>> : i \in 1..ProbeRow[k]} : k \in S})

\* C12: the boost is 0 when the active set is empty, when the graph is not
\* loaded, when the candidate has no recorded edges and when none of its
\* co-observed identities is active.
C12_BoostZero ==
    (/\ bres # <<>>
     /\ \/ bopen = <<>>
        \/ ~bco.loaded
        \/ DOMAIN ProbeRow = {}
        \/ ProbeActive = {})
        => bres[1].bn = 0

\* a candidate with recorded edges, a non-empty active set, none of its
\* neighbours active
C12_Witness ==
    /\ bres # <<>>
    /\ bco.loaded
    /\ Cardinality(DOMAIN ProbeRow) = 2
    /\ bopen # <<>>
    /\ ProbeActive = {}
    /\ bres[1].bn = 0

\* C13: with an active co-observed identity, boost = (active co-observed
\* identities / co-observed identities) * (counts toward active identities /
\* all counts) * 50, as an equality of fractions.
C13_BoostFormula ==
    (bres # <<>> /\ ProbeActive # {})
        => /\ bres[1].bd > 0
           /\ bres[1].bn * (Cardinality(DOMAIN ProbeRow) * ProbeCounts(DOMAIN ProbeRow))
                 = bres[1].bd * (Cardinality(ProbeActive) * ProbeCounts(ProbeActive) * 50)

\* the candidate co-occurred with X in 8 of its 10 co-occurrences, X is its
\* only active neighbour of 2: the boost is (1/2) * 0.8 * 50 = 20
C13_Witness ==
    /\ bres # <<>>
    /\ DOMAIN ProbeRow = {BoostNeighbour1, BoostNeighbour2}
    /\ ProbeRow[BoostNeighbour1] = 8
    /\ ProbeRow[BoostNeighbour2] = 2
    /\ ProbeActive = {BoostNeighbour1}
    /\ bres[1].bn = 20 * bres[1].bd


(***************************************************************************)
(* Properties of the index in time                                         *)
(***************************************************************************)
\* the list onInputChanged would hand to suggest had it run from line 530 to
\* line 600 on the array items without interruption
ListOn(call, items) ==
    SuggestionList(call.text, call.prior,
                   UniqueScored(call.q, items, getOpenNormalizedUrls(tabs),
                                coOccurrenceData))

\* the contents, at the moment of scoring, of the array the call was given
ArrayNow(call) == IF call.attached THEN indexCache.items ELSE call.idx

\* C14: every query operates on one consistent snapshot of the index: the
\* list a call of onInputChanged hands to suggest is the list of the whole
\* pipeline on the index as it was at the pre-filter, or on the index as it
\* is at scoring; no write in between shows in the result
C14_OneSnapshot ==
    [][(inflight.pc = "openUrls" /\ inflight'.pc = "idle" /\ suggested' # <<>>)
          => suggested'[2] \in {ListOn(inflight, inflight.idx),
                                ListOn(inflight, ArrayNow(inflight))}]_vars

\* C15: a failing persistence write is only logged: whether the cache is
\* fresh, stale or absent, no call of onInputChanged ends without a list for
\* suggest because chrome.storage.local.set rejected
C15_WriteFailureNeverSurfaces == inflight.pc # "rejected"

\* C20: bounded staleness: the index a query is answered from was made by
\* a buildIndex that ran no more than INDEX_CACHE_TTL before the query, also
\* after a restart that loaded the stored index with its timestamp and after
\* extractContentAsync rewrote the stored timestamp
C20_BoundedStaleness ==
    inflight.pc = "openUrls"
        => (inflight.at - inflight.builtAt) * TickSeconds <= INDEX_CACHE_TTL

(***************************************************************************)
(* Properties of the debounced save of the graph                           *)
(***************************************************************************)
\* the graph chrome.storage.local holds, {} when the key is absent
StoredGraph == IF urlCoOccurrence = <<>> THEN EmptyObject ELSE urlCoOccurrence[1]

\* the graph in memory holds observations that storage does not
Unsaved == coOccurrenceData.loaded /\ coOccurrenceData.data # StoredGraph

\* fewer than two tabs in scope are open: snapshotOpenTabs, whichever timer
\* runs it, records nothing (line 850)
ObservationsPaused == Len(SnapshotUrls) < 2

\* C16: every observation is eventually persisted once the observations
\* pause: whenever the graph in memory holds observations that storage does
\* not and no observation can come, a later state has them stored, unless
\* tabs are opened again or the script is restarted first
C16_EventuallyPersisted ==
    (Unsaved /\ ObservationsPaused) ~> (~Unsaved \/ ~ObservationsPaused)

(***************************************************************************)
(* Properties of the list handed to suggest                                *)
(***************************************************************************)
\* the entries of the list that come from the index
IndexEntries(list) == SelectSeq(list, LAMBDA x : x.kind = "index")

\* uniqueScored of the call that filled suggested, in the state it left
RankingShown ==
    UniqueScored(toLowerCase(trim(suggested[1])), getIndexFast,
                 getOpenNormalizedUrls(tabs), coOccurrenceData)

\* the index entries of shown are the first entries of ranking, in order
IsRankingPrefix(shown, ranking) ==
    /\ Len(shown) <= Len(ranking)
    /\ \A i \in 1..Len(shown) : shown[i].content = ranking[i].item.url

\* C17: every list handed to suggest has at most 6 entries, holds at most
\* 6 minus the number of higher-priority suggestions entries from the index,
\* and these are a prefix of the sorted, deduplicated ranking
C17_Truncation ==
    suggested # <<>> =>
        /\ Len(suggested[2]) <= maxSuggestions
        /\ Len(IndexEntries(suggested[2])) + Len(PrioritySuggestions(suggested[1], screenSnapshot))
              <= maxSuggestions
           \/ IndexEntries(suggested[2]) = <<>>
        /\ IsRankingPrefix(IndexEntries(suggested[2]), RankingShown)

\* higher-priority suggestions leave room for some but not all of the ranking
C17_Witness ==
    /\ suggested # <<>>
    /\ Len(suggested[2]) = maxSuggestions
    /\ IndexEntries(suggested[2]) # <<>>
    /\ Len(IndexEntries(suggested[2])) < Len(RankingShown)

(***************************************************************************)
(* Properties of Enter                                                     *)
(***************************************************************************)
\* C18: when onInputChanged showed a non-empty list for a text and Enter is
\* pressed on that text with nothing changed in between, onInputEntered
\* opens the content of the first suggestion of the list
C18_EnterOpensFirst ==
    [][(suggested # <<>> /\ suggested[2] # <<>> /\ opened' # <<>>)
          => opened'[2].content = suggested[2][1].content]_vars

(***************************************************************************)
(* Properties of the exact-title query                                     *)
(***************************************************************************)
\* the items of the index whose lowercased title is the query and whose URL
\* contains the query, while no other item of the index matches
ExactMatches ==
    {i \in 1..Len(indexCache.items) :
        /\ toLowerCase(indexCache.items[i].title) = ResultQuery
        /\ Contains(toLowerCase(indexCache.items[i].url), ResultQuery)
        /\ \A j \in 1..Len(indexCache.items) :
               j # i => calculateWeightedTextScore(ResultQuery, indexCache.items[j]) = NegInf}

\* C19: a single-word query that equals the lowercased title of an item whose
\* URL contains it, with no other item matching and no tab open, returns
\* that item as the sole result, whatever the item's kind, body text and
\* headings
C19_ExactTitleSole ==
    (HasResult /\ RankingConsulted /\ Len(SplitWords(ResultQuery)) = 1 /\ tabs = <<>>) =>
        \A i \in ExactMatches : ReturnedIndexUrls = <<indexCache.items[i].url>>

(***************************************************************************)
(* Properties of extracted content                                         *)
(***************************************************************************)
\* what content extraction has left in an index: for every item with body
\* text or heading text, its identity with both texts
ExtractedIn(items) ==
    {[id |-> normalizeUrlForDedup(items[i].url), content |-> items[i].content,
      headings |-> items[i].headings] :
        i \in {j \in 1..Len(items) : items[j].content # <<>> \/ items[j].headings # <<>>}}

\* what extractContentAsync has stored: the extracted texts that are in the
\* index in memory and in the stored index
ExtractedAndStored ==
    IF indexCache.loaded /\ storedIndex # <<>>
    THEN ExtractedIn(indexCache.items) \cap ExtractedIn(storedIndex[1])
    ELSE {}

\* C21: extracted content is not lost: body text and heading text that
\* extractContentAsync has stored for an identity stay with that identity,
\* in the index in memory and in the stored index, through every index
\* refresh (buildIndex from onVisited or from cache expiry)
C21_ExtractedContentKept ==
    [][/\ (indexCache'.loaded
              => ExtractedAndStored \subseteq ExtractedIn(indexCache'.items))
       /\ (storedIndex' # <<>>
              => ExtractedAndStored \subseteq ExtractedIn(storedIndex'[1]))]_vars

(***************************************************************************)
(* Properties of repeated identities in a snapshot                         *)
(***************************************************************************)
\* C22: recordCoOccurrence treats its input as a set of identities: when
\* several of the given URLs normalize to one identity, that identity counts
\* once, so that no identity is ever recorded with itself: the graph has no
\* edge from A to A in any reachable state
C22_NoSelfEdge ==
    \A a \in DOMAIN coOccurrenceData.data : a \notin DOMAIN coOccurrenceData.data[a]

(***************************************************************************)
(* Properties of the identities in the index                               *)
(***************************************************************************)
\* C23: from empty storage, after any interleaving of loadIndexToMemory,
\* buildIndex (from onVisited or cache expiry) and extractContentAsync, no
\* two items of the index in memory have URLs that normalize to the same
\* identity, and every item is a chrome URL or has an allow-listed host
C23_UniqueIdentities ==
    indexCache.loaded =>
        /\ \A i, j \in 1..Len(indexCache.items) :
               i # j => normalizeUrlForDedup(indexCache.items[i].url)
                            # normalizeUrlForDedup(indexCache.items[j].url)
        /\ \A i \in 1..Len(indexCache.items) : InScope(indexCache.items[i].url)

\* the stored index was built after time had passed, and extraction has
\* added an item for a new identity and has found the item of a document by
\* a URL that is not the item's own
C23_Witness ==
    /\ indexCache.loaded
    /\ storedBuiltAt > 0
    /\ Len(indexCache.items) = 3
    /\ \E i \in 1..Len(indexCache.items) :
           /\ indexCache.items[i].url = Url_docIEdit
           /\ indexCache.items[i].content # <<>>
    /\ \E i \in 1..Len(indexCache.items) :
           normalizeUrlForDedup(indexCache.items[i].url) = Url_repoCD

(***************************************************************************)
(* Properties of the weighted sum                                          *)
(***************************************************************************)
FieldNames == {"title", "url", "kind", "content", "headings"}
\* the fields of the item that calculateWeightedTextScore evaluates for the
\* query and that fuzzyScore matches
MatchedFieldNames(q, item) ==
    {f \in IF Len(q) >= 3 THEN FieldNames ELSE {"title", "url", "kind"} :
        fuzzyScore(q, toLowerCase(item[f])) \notin {NegInf, NoQueryField}}

\* other is item with some of the fields that match in item replaced by
\* fields that do not match
MatchesInFewerFields(q, other, item) ==
    /\ MatchedFieldNames(q, other) # MatchedFieldNames(q, item)
    /\ MatchedFieldNames(q, other) \subseteq MatchedFieldNames(q, item)
    /\ \A f \in FieldNames :
           (f \in MatchedFieldNames(q, other) \/ f \notin MatchedFieldNames(q, item))
               => other[f] = item[f]

\* C24: the weighted scorer rewards agreement across fields: an item that
\* matches the query in a set of fields scores at least as high as an
\* otherwise identical item that matches in a proper subset of them only
C24_AgreementRewarded ==
    (HasResult /\ ResultQuery # <<>>) =>
        \A item \in IndexItems : \A other \in ScoreItems :
            (MatchesInFewerFields(ResultQuery, other, item)
                 /\ MatchedFieldNames(ResultQuery, other) # {})
                => calculateWeightedTextScore(ResultQuery, item).v
                       >= calculateWeightedTextScore(ResultQuery, other).v

(***************************************************************************)
(* Properties of the field score                                           *)
(***************************************************************************)
\* the word is a subsequence of a stretch of m characters of the target
\* that begins with the word's first letter and ends with its last
InStretchOf(word, t, m) ==
    \E i \in 1..(Len(t) - m + 1) :
        /\ t[i] = word[1]
        /\ t[i + m - 1] = word[Len(word)]
        /\ IsSubsequence(word, SubSeq(t, i, i + m - 1))
\* the least m from which on some stretch holds the word, where the word is
\* a subsequence of the target
RECURSIVE ShortestStretch(_, _, _)
ShortestStretch(word, t, m) ==
    IF InStretchOf(word, t, m) THEN m ELSE ShortestStretch(word, t, m + 1)
\* the minimum jump count of a word in a target: the least number of
\* characters that a stretch of the target holding the word as a
\* subsequence has beyond the word's own
MinJumps(word, t) == ShortestStretch(word, t, Len(word)) - Len(word)
\* the sum of the minimum jump counts of the words when every word is a
\* subsequence of the target and within its budget, NoScan otherwise
RECURSIVE JumpsWithinBudget(_, _, _)
JumpsWithinBudget(words, t, total) ==
    IF words = <<>> THEN total
    ELSE IF ~IsSubsequence(Head(words), t) THEN NoScan
    ELSE LET j == MinJumps(Head(words), t)
         IN  IF ExceedsBudget(j, Len(Head(words))) THEN NoScan
             ELSE JumpsWithinBudget(Tail(words), t, total + j)
\* -(jumps) - 0.001 * len(field) - 0.1 * (len(trimmed query) - word lengths),
\* in units of 1/1000
FieldScore(jumps, q, words, t) ==
    -(1000 * jumps + Len(t) + 100 * (Len(q) - SumLen(words)))
\* the field without its last character
ShorterFields(t) == IF Len(t) < 2 THEN {} ELSE {SubSeq(t, 1, Len(t) - 1)}

\* C25: when every query word matches the field within budget, fuzzyScore
\* is -(sum of the words' minimum jump counts) - 0.001 * len(field)
\* - 0.1 * (len(trimmed query) - sum of word lengths): finite, strictly
\* negative, and lower than the score of a shorter field with equal jumps
C25_FieldScoreFormula ==
    (fres # <<>> /\ ProbeWords # <<>>) =>
        LET jumps == JumpsWithinBudget(ProbeWords, ProbeTarget, 0)
        IN  jumps # NoScan =>
                /\ fres[1] = Fin(FieldScore(jumps, trim(toLowerCase(fq)), ProbeWords,
                                            ProbeTarget))
                /\ ~fres[1].inf
                /\ fres[1].v < 0
                /\ \A shorter \in ShorterFields(ft) :
                       JumpsWithinBudget(ProbeWords, toLowerCase(shorter), 0) = jumps
                           => fuzzyScore(fq, shorter).v > fres[1].v

\* a query of two words matched a field in which the scan from the first
\* position finds a word with more jumps than a later scan does, and the
\* field without its last character matches with the same jumps
C25_Witness ==
    /\ fres # <<>>
    /\ ~fres[1].inf
    /\ Len(ProbeWords) = 2
    /\ Len(trim(toLowerCase(fq))) - SumLen(ProbeWords) = 1
    /\ JumpsWithinBudget(ProbeWords, ProbeTarget, 0) = 1
    /\ \E i \in 1..2 :
           ScanFrom(ProbeWords[i], ProbeTarget, 1, 1, 0) > MinJumps(ProbeWords[i], ProbeTarget)
    /\ JumpsWithinBudget(ProbeWords, SubSeq(ProbeTarget, 1, Len(ft) - 1), 0) = 1

\* ten times the weight of a field: title 1.5, body 1.0, headings 0.8,
\* url 0.5, category 0.3
Weight10(f) ==
    CASE f = "title" -> 15 [] f = "content" -> 10 [] f = "headings" -> 8
      [] f = "url" -> 5 [] f = "kind" -> 3
\* what a field adds to the item score, in units of 1/10000: its weighted
\* field score when it was evaluated and matches, else 0
Contribution(q, item, f) ==
    IF f \in MatchedFieldNames(q, item)
    THEN Weight10(f) * fuzzyScore(q, toLowerCase(item[f])).v
    ELSE 0
WeightedSum(q, item) ==
    Contribution(q, item, "title") + Contribution(q, item, "content")
        + Contribution(q, item, "headings") + Contribution(q, item, "url")
        + Contribution(q, item, "kind")
\* the item of the index with the URL
ItemOf(url) == CHOOSE item \in IndexItems : item.url = url

\* C26: when at least one evaluated field matches, the item score is
\* 1.5*title + 1.0*body + 0.8*headings + 0.5*url + 0.3*category over the
\* field scores, a field that does not match or was not evaluated counting
\* 0; it depends on the query and the item only, so that with no tab open
\* the index entries are returned in the order of these sums
C26_WeightedSum ==
    (HasResult /\ ResultQuery # <<>>) =>
        /\ \A item \in IndexItems :
               MatchedFieldNames(ResultQuery, item) # {}
                   => calculateWeightedTextScore(ResultQuery, item)
                          = Fin(WeightedSum(ResultQuery, item))
        /\ \A i, j \in 1..Len(ReturnedIndexUrls) :
               i < j => WeightedSum(ResultQuery, ItemOf(ReturnedIndexUrls[i]))
                            >= WeightedSum(ResultQuery, ItemOf(ReturnedIndexUrls[j]))

\* a query of three characters returned two items, one of which matches in
\* body text and headings and has a title that does not match
C26_Witness ==
    /\ suggested # <<>>
    /\ Len(ResultQuery) >= 3
    /\ Len(ReturnedIndexUrls) = 2
    /\ \E item \in IndexItems :
           /\ {"content", "headings"} \subseteq MatchedFieldNames(ResultQuery, item)
           /\ "title" \notin MatchedFieldNames(ResultQuery, item)
           /\ item.url = ReturnedIndexUrls[2]

(***************************************************************************)
(* Properties of the parts of a URL that its identity keeps                *)
(***************************************************************************)
\* the URL is on the document host with a document, spreadsheets or
\* presentation ID in its path, or on the code host with two path segments
HasSpecialShape(u) ==
    \/ /\ Contains(u.hostname, Str_docsHost)
       /\ \E shape \in {Str_documentD, Str_spreadsheetsD, Str_presentationD} :
              HasMatch(u.pathname, shape)
    \/ /\ ~Contains(u.hostname, Str_docsHost)
       /\ Contains(u.hostname, Str_githubHost)
       /\ Len(SplitPath(u.pathname, <<>>, <<>>)) >= 2

\* C27: the identity of a document URL with an ID shape and of a code-host
\* URL with owner and repo is built from the URL's own scheme and host: it
\* begins with scheme://host/ of the input, so that URLs of different
\* schemes or hosts never share an identity
C27_OwnSchemeAndHost ==
    (nres # <<>> /\ URLParse(nurl).ok /\ HasSpecialShape(URLParse(nurl))) =>
        StartsWith(nres[1], URLParse(nurl).protocol \o <<"/", "/">>
                                \o URLParse(nurl).hostname \o <<"/">>)

\* url up to its query or fragment
StripQueryAndFragment(url) == UpTo(url, FirstIn(url, {"?", "#"}, 1) - 1)
\* the URL is written the way the parser serializes it: scheme://authority
\* and a path, and no port that is the default of its scheme
WrittenAsSerialized(url) ==
    /\ URLParse(url).ok
    /\ StartsWith(url, URLParse(url).protocol \o <<"/", "/">>)
    /\ LET rest == From(StripQueryAndFragment(url), Len(URLParse(url).protocol) + 3)
       IN  rest # <<>> /\ rest[1] # "/" /\ Contains(rest, <<"/">>)
    /\ ~(URLParse(url).protocol = Append(Str_http, ":")
           /\ Contains(url, <<":", "8", "0", "/">>))

\* C28: for a parseable URL that fits no special shape, normalize strips the
\* query and the fragment only: scheme, host, port, user info and path are
\* kept
C28_OnlyQueryAndFragmentStripped ==
    (nres # <<>> /\ WrittenAsSerialized(nurl) /\ ~HasSpecialShape(URLParse(nurl)))
        => nres[1] = StripQueryAndFragment(nurl)

(***************************************************************************)
(* Properties of the periodic scheduler                                    *)
(***************************************************************************)
\* C29: two consecutive snapshots started by the startup of the tracker or
\* by its periodic timer are never less than CO_OCCURRENCE_SNAPSHOT_INTERVAL
\* apart, at startup and after a snapshot that failed included
C29_PeriodicSpacing ==
    Len(snapshotStarts) = 2
        => (snapshotStarts[2] - snapshotStarts[1]) * SnapshotTickSeconds
               >= CO_OCCURRENCE_SNAPSHOT_INTERVAL

(***************************************************************************)
(* Properties of a snapshot of fewer than two identities                   *)
(***************************************************************************)
\* C30: recordCoOccurrence with fewer than 2 identities is a no-op: while
\* the open in-scope tabs have fewer than 2 identities, no step of the
\* tracker changes the graph or its set of keys, and none schedules a save
C30_FewIdentitiesNoOp ==
    [][(startup' = startup /\ Cardinality(ElementsOf(ObservedIdentities)) < 2)
          => /\ coOccurrenceData' = coOccurrenceData
             /\ (snapshotTimeout' => snapshotTimeout)]_vars

(***************************************************************************)
(* Properties of the first-character filter                                *)
(***************************************************************************)
\* the ranking of the query over every item of the index, none filtered out
\* before it is scored: scored, sorted, deduplicated
UniqueScoredEveryItem ==
    DedupeScored(
        SortByScore(
            SelectSeq(MapScore(ResultQuery, indexCache.items,
                               getOpenNormalizedUrls(tabs), coOccurrenceData),
                      LAMBDA x : ~x.score.inf)),
        {})
\* the index entries the handlers return for a sorted, deduplicated list
UrlsReturnedFor(unique) ==
    IF unique = <<>> THEN <<>>
    ELSE IF BelowThreshold(unique[1].score) THEN <<>>
    ELSE [i \in 1..Min(ResultSlots, Len(unique)) |-> unique[i].item.url]

\* C31: for a non-empty query the index entries returned are those of the
\* ranking that scores every item of the index without the first-character
\* filter: the filter discards no item the scorer matches, in whatever field.
C31_PrefilterPureOptimisation ==
    (HasResult /\ RankingConsulted /\ ResultQuery # <<>>) =>
        ReturnedIndexUrls = UrlsReturnedFor(UniqueScoredEveryItem)

(***************************************************************************)
(* Properties of the scan from every start offset                          *)
(***************************************************************************)
\* the word is a subsequence of some m consecutive characters of the target
InSubstringOf(word, t, m) ==
    \E i \in 1..(Len(t) - m + 1) : IsSubsequence(word, SubSeq(t, i, i + m - 1))
\* the length of the shortest contiguous substring of the target that holds
\* the word as a subsequence, where the whole target does
RECURSIVE ShortestSubstring(_, _, _)
ShortestSubstring(word, t, m) ==
    IF InSubstringOf(word, t, m) THEN m ELSE ShortestSubstring(word, t, m + 1)

\* C32: for every word of the query that is a subsequence of the target, the
\* jump count fuzzyScore computes for the word (the least count over the
\* start offsets) is the length of the shortest contiguous substring of the
\* target that holds the word as a subsequence, less the length of the word.
C32_GreedyFindsOptimum ==
    fres # <<>> =>
        \A k \in 1..Len(ProbeWords) :
            IsSubsequence(ProbeWords[k], ProbeTarget) =>
                LET m == MatchWord(ProbeWords[k], ProbeTarget)
                IN  /\ m.wordMatched
                    /\ m.bestWordJumps
                           = ShortestSubstring(ProbeWords[k], ProbeTarget, Len(ProbeWords[k]))
                                 - Len(ProbeWords[k])

\* the target begins with the first letter of a word, the scan from there
\* skips more characters than the best scan, and the best scan skips some
C32_Witness ==
    /\ fres # <<>>
    /\ ProbeTarget # <<>>
    /\ \E k \in 1..Len(ProbeWords) :
          /\ ProbeTarget[1] = ProbeWords[k][1]
          /\ MatchWord(ProbeWords[k], ProbeTarget).bestWordJumps > 0
          /\ ScanFrom(ProbeWords[k], ProbeTarget, 1, 1, 0)
                 > MatchWord(ProbeWords[k], ProbeTarget).bestWordJumps

(***************************************************************************)
(* Specification of the ordering: an index of two or three items of        *)
(* different identities in every order, two of them with the same title    *)
(* and kind; a graph with one edge; no tab or one tab open                 *)
(***************************************************************************)
OrderItems ==
    {Item(Url_repoAB, <<"x", "y">>, Str_kindGitHub, <<>>, <<>>),
     Item(Url_repoCD, <<"x", "y">>, Str_kindGitHub, <<>>, <<>>),
     Item(Url_docI, <<"x">>, Str_kindDoc, <<>>, <<>>)}
OrderIndexes ==
    {<<a, b>> : a \in OrderItems, b \in OrderItems}
        \cup {<<a, b, c>> : a \in OrderItems, b \in OrderItems, c \in OrderItems}
\* what recordCoOccurrence builds from one snapshot of two tabs
OrderGraphs ==
    {Loaded(EmptyObject),
     RecordedData(Loaded(EmptyObject), <<Url_repoAB, Url_docI>>),
     RecordedData(Loaded(EmptyObject), <<Url_repoCD, Url_docI>>)}
OrderTabs == {<<>>, <<Url_docI>>, <<Url_repoAB>>}
OrderTexts == {<<"x">>, <<"x", "y">>, <<"y">>, <<"z">>}

InitOrder ==
    /\ startup = {}
    /\ indexCache \in
           {LoadedIndex(index) : index \in
               {i \in OrderIndexes : \A j, k \in 1..Len(i) : j # k => i[j] # i[k]}}
    /\ indexCacheFresh = TRUE
    /\ coOccurrenceData \in OrderGraphs
    /\ snapshotTimeout = FALSE
    /\ urlCoOccurrence = <<>>
    /\ tabs \in OrderTabs
    /\ screenSnapshot = NoSnapshot
    /\ suggested = <<>>
    /\ opened = <<>>
    /\ StoreIdle
    /\ TimerIdle
    /\ ScreenIdle
    /\ MatchIdle
    /\ UrlIdle
    /\ BoostIdle

NextOrder ==
    \/ \E text \in OrderTexts : OnInputChanged(text)
    \/ \E text \in OrderTexts : OnInputEntered(text)

SpecOrder == InitOrder /\ [][NextOrder]_vars

(***************************************************************************)
(* Properties of the order of the items returned                           *)
(***************************************************************************)
\* the place in the index of the first item with the URL
PlaceOf(url) ==
    CHOOSE i \in 1..Len(indexCache.items) :
        /\ indexCache.items[i].url = url
        /\ \A j \in 1..(i - 1) : indexCache.items[j].url # url

\* C33: the index entries handed to suggest are in non-increasing order of
\* combined score (text score plus boost), and of two entries with equal
\* combined score the one that comes first in the index comes first.
C33_SortedAndStable ==
    (suggested # <<>>) =>
        \A i, j \in 1..Len(ReturnedIndexUrls) :
            i < j =>
                LET a == CombinedScore(ItemOf(ReturnedIndexUrls[i]))
                    b == CombinedScore(ItemOf(ReturnedIndexUrls[j]))
                IN  /\ AtLeast(a, b)
                    /\ AtLeast(b, a)
                           => PlaceOf(ReturnedIndexUrls[i]) < PlaceOf(ReturnedIndexUrls[j])

\* three entries returned: the first stands last in the index and has a
\* greater combined score than the second, which ties with the third
C33_Witness ==
    /\ suggested # <<>>
    /\ Len(ReturnedIndexUrls) = 3
    /\ PlaceOf(ReturnedIndexUrls[1]) = 3
    /\ ~AtLeast(CombinedScore(ItemOf(ReturnedIndexUrls[2])),
                CombinedScore(ItemOf(ReturnedIndexUrls[1])))
    /\ AtLeast(CombinedScore(ItemOf(ReturnedIndexUrls[3])),
               CombinedScore(ItemOf(ReturnedIndexUrls[2])))

(***************************************************************************)
(* Properties of short queries                                             *)
(***************************************************************************)
\* the item, and the index, with no body text and no headings
WithoutText(item) == [item EXCEPT !.content = <<>>, !.headings = <<>>]
IndexWithoutText == [i \in 1..Len(indexCache.items) |-> WithoutText(indexCache.items[i])]

\* C34: for a query whose trimmed length is below 3, the score of every item
\* and the index entries returned are those of the index with the body text
\* and the headings of every item removed, so that two indexes that differ
\* only there give the same scores and the same result; for a trimmed length
\* of 3 or more (separators counted) an item whose body text or headings
\* match is a match, with another score than without them.
C34_ShortQueriesIgnoreText ==
    (HasResult /\ RankingConsulted /\ ResultQuery # <<>>) =>
        IF Len(ResultQuery) < 3
        THEN /\ \A item \in IndexItems :
                    calculateWeightedTextScore(ResultQuery, item)
                        = calculateWeightedTextScore(ResultQuery, WithoutText(item))
             /\ ReturnedIndexUrls =
                    UrlsReturnedFor(UniqueScored(ResultQuery, IndexWithoutText,
                                                 getOpenNormalizedUrls(tabs), coOccurrenceData))
        ELSE \A item \in IndexItems :
                 (FieldMatches(ResultQuery, item.content)
                     \/ FieldMatches(ResultQuery, item.headings))
                 => /\ calculateWeightedTextScore(ResultQuery, item) # NegInf
                    /\ calculateWeightedTextScore(ResultQuery, item)
                           # calculateWeightedTextScore(ResultQuery, WithoutText(item))

\* the text typed has 3 characters and its trimmed form 2; the body text of
\* the only item holds the query, its title, URL and kind do not: the item
\* is a no-match and nothing of the index is returned
C34_Witness ==
    /\ suggested # <<>>
    /\ Len(ResultText) = 3
    /\ Len(ResultQuery) = 2
    /\ Len(indexCache.items) = 1
    /\ FieldMatches(ResultQuery, indexCache.items[1].content)
    /\ calculateWeightedTextScore(ResultQuery, indexCache.items[1]) = NegInf
    /\ ReturnedIndexUrls = <<>>

(***************************************************************************)
(* Properties of the boost of a hub                                        *)
(***************************************************************************)
\* the graph with the count c on the edge between a and b, in both rows
WithCount(data, a, b, c) ==
    LET RowOf(k) == IF k \in DOMAIN data THEN data[k] ELSE EmptyObject
        Put(k, other) == [x \in DOMAIN RowOf(k) \cup {other} |->
                              IF x = other THEN c ELSE RowOf(k)[x]]
    IN  [k \in DOMAIN data \cup {a, b} |->
            IF k = a THEN Put(a, b) ELSE IF k = b THEN Put(b, a) ELSE data[k]]
\* the identities an edge of the candidate may lead to
HubNeighbours == BoostNeighbours \cup {normalizeUrlForDedup(Url_repoCD)}
\* the identities that are not active and are not the candidate
NotActive == (HubNeighbours \ ElementsOf(bopen)) \ {normalizeUrlForDedup(burl)}
\* the counts an edge to n may be raised to, or be added with
RaisedCounts(n) ==
    IF n \in DOMAIN ProbeRow THEN (ProbeRow[n] + 1)..(ProbeRow[n] + 2) ELSE BoostCounts
\* the boost of the candidate once its edge to n has the count c
BoostWith(n, c) ==
    calculateClusterBoost(Loaded(WithCount(bco.data, normalizeUrlForDedup(burl), n, c)),
                          burl, bopen)

\* C35: with the active set and the edges toward active identities fixed,
\* a higher count on, or the addition of, an edge from the candidate to an
\* identity that is not active never gives a greater boost, and the addition
\* of a neighbour that is not active makes a positive boost strictly smaller.
C35_HubsNotFavoured ==
    (bres # <<>> /\ bco.loaded) =>
        \A n \in NotActive : \A c \in RaisedCounts(n) :
            /\ BoostWith(n, c).bn * bres[1].bd <= bres[1].bn * BoostWith(n, c).bd
            /\ (n \notin DOMAIN ProbeRow /\ bres[1].bn > 0)
                   => BoostWith(n, c).bn * bres[1].bd < bres[1].bn * BoostWith(n, c).bd

\* a positive boost of a candidate with an active neighbour, a neighbour
\* that is not active, and an identity it has no edge to
C35_Witness ==
    /\ bres # <<>>
    /\ bco.loaded
    /\ bres[1].bn > 0
    /\ \E n \in NotActive : n \in DOMAIN ProbeRow
    /\ \E n \in NotActive : n \notin DOMAIN ProbeRow

(***************************************************************************)
(* Properties of the bounds of the boost                                   *)
(***************************************************************************)
\* the lists of open identities a call may be given: none, one of the URLs
\* a tab may show, both, and another
ActiveLists ==
    {<<>>, getOpenNormalizedUrls(<<Url_repoAB, Url_docI>>)}
        \cup {getOpenNormalizedUrls(<<u>>) : u \in TabUrls \cup {Url_other}}
\* the URLs of the items of the index and of the tabs
CandidateUrls == {BuiltIndex[i].url : i \in 1..Len(BuiltIndex)} \cup GraphTabUrls
\* the pairs of candidates of one identity
SameIdentity ==
    {pair \in CandidateUrls \X CandidateUrls :
        normalizeUrlForDedup(pair[1]) = normalizeUrlForDedup(pair[2])}

\* C36: whatever graph the observations have made (the omnibox handlers
\* leave the graph as it is, so it is looked at between two of their
\* results), the boost of every candidate under every active list is at
\* least 0 and at most 50, and two URLs of one identity get the same boost;
\* no index entry returned belongs to an item whose text score is no-match,
\* whatever its boost.
C36_BoostBounded ==
    /\ Delivered =>
           LET boost == [active \in ActiveLists |->
                            [url \in CandidateUrls |->
                                calculateClusterBoost(coOccurrenceData, url, active)]]
           IN  \A active \in ActiveLists :
                   /\ \A url \in CandidateUrls :
                          /\ boost[active][url].bd > 0
                          /\ 0 <= boost[active][url].bn
                          /\ boost[active][url].bn
                                 <= CLUSTER_BOOST_BASE * boost[active][url].bd
                   /\ \A pair \in SameIdentity :
                          boost[active][pair[1]] = boost[active][pair[2]]
    /\ (HasResult /\ RankingConsulted) =>
           \A i \in 1..Len(ReturnedIndexUrls) :
               \A item \in IndexItems :
                   item.url = ReturnedIndexUrls[i]
                       => calculateWeightedTextScore(ResultQuery, item) # NegInf

\* index entries were returned, and an item whose text score is no-match and
\* whose boost is 50 was not
C36_Witness ==
    /\ suggested # <<>>
    /\ ReturnedIndexUrls # <<>>
    /\ \E item \in IndexItems :
          /\ calculateWeightedTextScore(ResultQuery, item) = NegInf
          /\ CombinedScore(item).bn = CLUSTER_BOOST_BASE * CombinedScore(item).bd
          /\ item.url \notin ElementsOf(ReturnedIndexUrls)

(***************************************************************************)
(* Specification of the screen snapshot in time: requestScreenSnapshot     *)
(* waits for the content script of the tab twice, and meanwhile the active *)
(* tab may change, a tab may navigate and time passes                      *)
(***************************************************************************)
\* one step of the clock, in seconds
ScreenTickSeconds == 10
\* 15000 ms, in seconds
SNAPSHOT_TTL == 15
\* what the content script of a tab answers while the tab shows a page: to
\* collectVisibleLinks and to detectOTPScreen
PageLink(tab, page) ==
    IF page = 0 THEN (IF tab = 1 THEN Url_other ELSE Url_docI)
    ELSE (IF tab = 1 THEN Url_repoAB ELSE Url_repoCD)
PageLinks(tab, page) == <<Link(<<"a", "b">>, PageLink(tab, page))>>
PageOtp(tab, page) == IF tab = 1 /\ page = 1 THEN Url_gmail ELSE <<>>

\* requestScreenSnapshot up to its first sendMessage (lines 349-369): the
\* cached snapshot is returned when it is of the active tab and fresh
RequestScreenSnapshot ==
    /\ Len(screenRequests) < MaxScreenRequests
    /\ IF /\ screenSnapshot.tabId = activeTabId
          /\ (now - screenTimestamp) * ScreenTickSeconds < SNAPSHOT_TTL
       THEN UNCHANGED screenRequests
       ELSE screenRequests' =
                Append(screenRequests, [tabId |-> activeTabId, pc |-> "links", links |-> <<>>])
    /\ suggested' = <<>>
    /\ opened' = <<>>
    /\ UNCHANGED <<probeVars, timerVars, storeVars, startup, indexVars, graphVars, tabs,
                   screenSnapshot, activeTabId, tabPages, screenTimestamp>>

\* lines 366-376: the tab answers collectVisibleLinks, or the message fails
LinksAnswered ==
    /\ \E i \in 1..Len(screenRequests) :
          /\ screenRequests[i].pc = "links"
          /\ \E links \in {<<>>, PageLinks(screenRequests[i].tabId,
                                           tabPages[screenRequests[i].tabId])} :
                screenRequests' =
                    [screenRequests EXCEPT ![i] = [@ EXCEPT !.pc = "otp", !.links = links]]
    /\ suggested' = <<>>
    /\ opened' = <<>>
    /\ UNCHANGED <<probeVars, timerVars, storeVars, startup, indexVars, graphVars, tabs,
                   screenSnapshot, activeTabId, tabPages, screenTimestamp>>

\* lines 378-397: the tab answers detectOTPScreen, or the message fails, and
\* the snapshot is written
OtpAnswered ==
    /\ \E i \in 1..Len(screenRequests) :
          /\ screenRequests[i].pc = "otp"
          /\ \E otpGmailUrl \in {<<>>, PageOtp(screenRequests[i].tabId,
                                               tabPages[screenRequests[i].tabId])} :
                screenSnapshot' = [tabId       |-> screenRequests[i].tabId,
                                   links       |-> screenRequests[i].links,
                                   otpGmailUrl |-> otpGmailUrl]
          /\ screenRequests' =
                 SubSeq(screenRequests, 1, i - 1)
                     \o SubSeq(screenRequests, i + 1, Len(screenRequests))
    /\ screenTimestamp' = now
    /\ suggested' = <<>>
    /\ opened' = <<>>
    /\ UNCHANGED <<probeVars, timerVars, storeVars, startup, indexVars, graphVars, tabs,
                   activeTabId, tabPages>>

\* chrome.tabs.onActivated (lines 405-407) for another tab
TabActivated ==
    /\ \E tab \in ScreenTabs \ {activeTabId} : activeTabId' = tab
    /\ screenSnapshot' = NoSnapshot
    /\ screenTimestamp' = 0
    /\ suggested' = <<>>
    /\ opened' = <<>>
    /\ UNCHANGED <<probeVars, timerVars, storeVars, startup, indexVars, graphVars, tabs,
                   tabPages, screenRequests>>

\* chrome.tabs.onUpdated with changeInfo.url (lines 450-455): a tab goes to
\* its next page
TabNavigates ==
    /\ \E tab \in ScreenTabs :
          /\ tabPages[tab] < MaxPage
          /\ tabPages' = [tabPages EXCEPT ![tab] = @ + 1]
          /\ IF screenSnapshot.tabId = tab
             THEN screenSnapshot' = NoSnapshot /\ screenTimestamp' = 0
             ELSE UNCHANGED <<screenSnapshot, screenTimestamp>>
    /\ suggested' = <<>>
    /\ opened' = <<>>
    /\ UNCHANGED <<probeVars, timerVars, storeVars, startup, indexVars, graphVars, tabs,
                   activeTabId, screenRequests>>

ScreenTick ==
    /\ now < MaxScreenTime
    /\ now' = now + 1
    /\ suggested' = <<>>
    /\ opened' = <<>>
    /\ UNCHANGED <<probeVars, timerVars, screenVars, startup, indexVars, graphVars, tabs,
                   screenSnapshot, indexCacheTimestamp, storedIndex, index_timestamp,
                   cacheBuiltAt, storedBuiltAt, inflight>>

NextScreen ==
    \/ RequestScreenSnapshot
    \/ LinksAnswered
    \/ OtpAnswered
    \/ TabActivated
    \/ TabNavigates
    \/ ScreenTick
    \/ OnInputChanged(<<"a", "b">>)

SpecScreen == Init /\ [][NextScreen]_vars

(***************************************************************************)
(* Properties of the screen snapshot in use                                *)
(***************************************************************************)
\* the cached snapshot is of the page the active tab shows
OfCurrentPage ==
    /\ screenSnapshot.tabId = activeTabId
    /\ screenSnapshot.links \in {<<>>, PageLinks(activeTabId, tabPages[activeTabId])}
    /\ screenSnapshot.otpGmailUrl \in {<<>>, PageOtp(activeTabId, tabPages[activeTabId])}

\* C37: the snapshot onInputChanged has used is of the active tab and of the
\* page it shows, and is at most SNAPSHOT_TTL old; a request that was under
\* way when the active tab changed or the tab navigated does not fill the
\* cache with the data of the old page.
C37_SnapshotOfCurrentPage ==
    (suggested # <<>> /\ screenSnapshot.tabId # 0) =>
        /\ OfCurrentPage
        /\ (now - screenTimestamp) * ScreenTickSeconds <= SNAPSHOT_TTL

====
